---------------------------- MODULE Spec2Model ----------------------------
(***************************************************************************)
(* A model of the CollagePro canvas editor (src/App.tsx and its helpers):  *)
(* the layer document, the selection, the viewport, the pointer/touch      *)
(* gesture session, the undo/redo history and the layout algorithms.       *)
(*                                                                         *)
(* JavaScript numbers are modelled as exact rationals [n, d] in lowest     *)
(* terms (d > 0): the arithmetic of the code is kept (divisions by the     *)
(* zoom and by aspect ratios included), floating-point rounding is not.    *)
(* A JavaScript null / undefined is the empty sequence <<>>, a present     *)
(* value v is <<v>>.                                                       *)
(***************************************************************************)
EXTENDS Integers, Sequences, FiniteSets, TLC

(***************************************************************************)
(* Rational arithmetic                                                     *)
(***************************************************************************)
Abs(i) == IF i < 0 THEN -i ELSE i

RECURSIVE GCD(_, _)
GCD(a, b) == IF b = 0 THEN a ELSE GCD(b, a % b)

\* the rational n/d (d # 0) in lowest terms with a positive denominator
Lowest(n, d, g) == [n |-> n \div g, d |-> d \div g]
Rat(n, d) ==
  IF d < 0 THEN Lowest(-n, -d, GCD(Abs(n), Abs(d)))
  ELSE Lowest(n, d, GCD(Abs(n), Abs(d)))

R(i) == [n |-> i, d |-> 1]

\* the operations cancel common factors before they multiply
LCM(a, b) == (a \div GCD(a, b)) * b
Over(a, b, l) == [a |-> a.n * (l \div a.d), b |-> b.n * (l \div b.d), l |-> l]
OverLCM(a, b) == Over(a, b, LCM(a.d, b.d))
Sum(o) == Rat(o.a + o.b, o.l)
Difference(o) == Rat(o.a - o.b, o.l)
RAdd(a, b) == Sum(OverLCM(a, b))
RSub(a, b) == Difference(OverLCM(a, b))
Cancelled(a, b, g1, g2) ==
  Rat((a.n \div g1) * (b.n \div g2), (a.d \div g2) * (b.d \div g1))
RMul(a, b) == Cancelled(a, b, GCD(Abs(a.n), b.d), GCD(Abs(b.n), a.d))
RDiv(a, b) == RMul(a, Rat(b.d, b.n))
RNeg(a) == [n |-> -a.n, d |-> a.d]
Less(o) == o.a < o.b
RLt(a, b) == Less(OverLCM(a, b))
RLe(a, b) == ~Less(OverLCM(b, a))
RAbs(a) == [n |-> Abs(a.n), d |-> a.d]
RMin(a, b) == IF RLe(a, b) THEN a ELSE b
RMax(a, b) == IF RLe(a, b) THEN b ELSE a
RHalf(a) == Rat(a.n, 2 * a.d)

\* Math.min(...xs) / Math.max(...xs) over a non-empty set of rationals
RMinOf(S) == CHOOSE x \in S : \A y \in S : RLe(x, y)
RMaxOf(S) == CHOOSE x \in S : \A y \in S : RLe(y, x)

\* Math.ceil(a / b) for positive integers
CeilDiv(a, b) == (a + b - 1) \div b

Null == <<>>
Some(v) == <<v>>
IsNull(o) == o = <<>>
Val(o) == o[1]

Range(s) == {s[i] : i \in 1..Len(s)}
Reverse(s) == [i \in 1..Len(s) |-> s[Len(s) + 1 - i]]

(***************************************************************************)
(* Geometry kernel (src/utils/geometry.ts)                                 *)
(***************************************************************************)
RectOf(l) == [x |-> l.x, y |-> l.y, width |-> l.width, height |-> l.height]

\* an iteration that also takes a candidate at the same distance as the best
SnapCloserLastWins(acc, edge, target, threshold, diff) ==
  IF RLt(diff, threshold) /\ (IsNull(acc.min) \/ RLe(diff, Val(acc.min)))
  THEN [min |-> Some(diff), snap |-> Some(RSub(target, edge)), line |-> Some(target)]
  ELSE acc

\* one iteration of the forEach of getSnapLines / getSnapDelta: acc is
\* [min (Null = Infinity), snap, line]; edge is the coordinate of the active
\* edge that is compared with the target
SnapCloser(acc, edge, target, threshold, diff) ==
  IF RLt(diff, threshold) /\ (IsNull(acc.min) \/ RLt(diff, Val(acc.min)))
  THEN [min |-> Some(diff), snap |-> Some(RSub(target, edge)), line |-> Some(target)]
  ELSE acc
SnapTry(acc, edge, target, threshold) ==
  SnapCloser(acc, edge, target, threshold, RAbs(RSub(edge, target)))

RECURSIVE SnapScan(_, _, _, _, _)
\* the forEach over the targets of one axis: near edge first, then far edge
SnapScan(acc, near, far, targets, threshold) ==
  IF targets = <<>> THEN acc
  ELSE SnapScan(SnapTry(SnapTry(acc, near, Head(targets), threshold),
                        far, Head(targets), threshold),
                near, far, Tail(targets), threshold)

RECURSIVE EdgeTargets(_, _)
\* otherRects.forEach(r => targets.push(r.x, r.x + r.width)), axis "x" or "y"
EdgeTargets(rects, axis) ==
  IF rects = <<>> THEN <<>>
  ELSE LET r == Head(rects)
       IN  (IF axis = "x" THEN <<r.x, RAdd(r.x, r.width)>>
                          ELSE <<r.y, RAdd(r.y, r.height)>>)
           \o EdgeTargets(Tail(rects), axis)

SnapNone == [min |-> Null, snap |-> Null, line |-> Null]

\* the value returned for the results ax, ay of the two scans
SnapResult(ax, ay) ==
  [x |-> ax.snap, y |-> ay.snap,
   guides |-> (IF IsNull(ax.line) THEN <<>>
               ELSE <<[type |-> "vertical", position |-> Val(ax.line)]>>)
           \o (IF IsNull(ay.line) THEN <<>>
               ELSE <<[type |-> "horizontal", position |-> Val(ay.line)]>>)]

getSnapLines(activeRect, otherRects, canvasWidth, canvasHeight, threshold) ==
  SnapResult(
    SnapScan(SnapNone, activeRect.x, RAdd(activeRect.x, activeRect.width),
             <<R(0), canvasWidth>> \o EdgeTargets(otherRects, "x"), threshold),
    SnapScan(SnapNone, activeRect.y, RAdd(activeRect.y, activeRect.height),
             <<R(0), canvasHeight>> \o EdgeTargets(otherRects, "y"), threshold))

getSnapDelta(value, targets, threshold) ==
  SnapScan(SnapNone, value, value, targets, threshold).snap

MinSize == 20

HandleHas(handle, c) ==
  CASE handle = "nw" -> c \in {"n", "w"}
    [] handle = "ne" -> c \in {"n", "e"}
    [] handle = "sw" -> c \in {"s", "w"}
    [] handle = "se" -> c \in {"s", "e"}

\* a constraint that puts the floor on the width only
ResizeConstrainWidthOnly(handle, keepRatio, x1, y1, w1, h1, newHeight) ==
  [x |-> x1,
   y |-> IF keepRatio /\ HandleHas(handle, "n")
         THEN RSub(y1, RSub(newHeight, h1)) ELSE y1,
   width  |-> IF RLt(w1, R(MinSize)) THEN R(MinSize) ELSE w1,
   height |-> IF keepRatio THEN newHeight ELSE h1]

\* the keepRatio block and the minimum size constraint, for the x, y, width
\* and height the handle updates have left
ResizeConstrain(handle, keepRatio, x1, y1, w1, h1, newHeight) ==
  [x |-> x1,
   y |-> IF keepRatio /\ HandleHas(handle, "n")
         THEN RSub(y1, RSub(newHeight, h1)) ELSE y1,
   width  |-> IF RLt(w1, R(MinSize)) THEN R(MinSize) ELSE w1,
   height |-> IF keepRatio
              THEN (IF RLt(newHeight, R(MinSize)) THEN R(MinSize) ELSE newHeight)
              ELSE (IF RLt(h1, R(MinSize)) THEN R(MinSize) ELSE h1)]

\* a ratio lock that keeps the height the pointer gave
ResizeRatioIgnored(layer, handle, keepRatio, x1, y1, w1, h1) ==
  ResizeConstrain(handle, keepRatio, x1, y1, w1, h1, h1)

ResizeRatio(layer, handle, keepRatio, x1, y1, w1, h1) ==
  ResizeConstrain(handle, keepRatio, x1, y1, w1, h1,
                  RDiv(w1, RDiv(layer.width, layer.height)))

resizeLayer(layer, handle, dx, dy, keepRatio) ==
  ResizeRatio(layer, handle, keepRatio,
    IF HandleHas(handle, "w") THEN RAdd(layer.x, dx) ELSE layer.x,
    IF HandleHas(handle, "n") THEN RAdd(layer.y, dy) ELSE layer.y,
    IF HandleHas(handle, "e") THEN RAdd(layer.width, dx)
    ELSE IF HandleHas(handle, "w") THEN RSub(layer.width, dx)
    ELSE layer.width,
    IF HandleHas(handle, "s") THEN RAdd(layer.height, dy)
    ELSE IF HandleHas(handle, "n") THEN RSub(layer.height, dy)
    ELSE layer.height)

(***************************************************************************)
(* Layer collection operations (src/utils/alignmentUtils.ts, second half:  *)
(* the layerOperations functions)                                          *)
(***************************************************************************)
Ids(ls) == {ls[i].id : i \in 1..Len(ls)}

\* layers.filter(l => selectedIds.has(l.id))
FilterIn(ls, ids) == SelectSeq(ls, LAMBDA l : l.id \in ids)
FilterOut(ls, ids) == SelectSeq(ls, LAMBDA l : l.id \notin ids)

\* layers.find(l => l.id === id): the first layer with that id
FindLayer(ls, id) == ls[CHOOSE i \in 1..Len(ls) :
                          ls[i].id = id /\ \A j \in 1..(i - 1) : ls[j].id # id]

duplicateLayerUtil(ls, layerId, freshId) ==
  IF layerId \notin Ids(ls) THEN ls
  ELSE LET l == FindLayer(ls, layerId)
       IN  Append(ls, [l EXCEPT !.id = freshId,
                                !.x = RAdd(l.x, R(20)),
                                !.y = RAdd(l.y, R(20)),
                                !.name = [l.name EXCEPT !.copies = @ + 1]])

deleteLayersUtil(ls, layerIds) == FilterOut(ls, layerIds)

\* a reordering that puts the selected layers on top in reverse order
bringToFrontReversed(ls, ids) == FilterOut(ls, ids) \o Reverse(FilterIn(ls, ids))

bringToFrontUtil(ls, ids) == FilterOut(ls, ids) \o FilterIn(ls, ids)

sendToBackUtil(ls, ids) == FilterIn(ls, ids) \o FilterOut(ls, ids)

selectAllLayersUtil(ls) == Ids(ls)

clearCanvasUtil == <<>>

\* a merge that writes the changed layers over the first places of the list
MergeByPosition(ls, changed) ==
  [i \in 1..Len(ls) |-> IF i <= Len(changed) THEN changed[i] ELSE ls[i]]

\* new Map(changed.map(l => [l.id, l])) then layers.map(l => map.has(l.id) ?
\* map.get(l.id) : l): the last entry of a given id wins in the Map
MergeById(ls, changed) ==
  [i \in 1..Len(ls) |->
     IF ls[i].id \in Ids(changed)
     THEN changed[CHOOSE j \in 1..Len(changed) :
                    changed[j].id = ls[i].id
                    /\ \A k \in (j + 1)..Len(changed) : changed[k].id # ls[i].id]
     ELSE ls[i]]

(***************************************************************************)
(* Alignment (src/utils/alignmentUtils.ts, handleAlign)                    *)
(***************************************************************************)
AlignTypes == {"left", "center-h", "right", "top", "middle-v", "bottom"}

BoundsOf(ls) ==
  [minX |-> RMinOf({ls[i].x : i \in 1..Len(ls)}),
   maxX |-> RMaxOf({RAdd(ls[i].x, ls[i].width) : i \in 1..Len(ls)}),
   minY |-> RMinOf({ls[i].y : i \in 1..Len(ls)}),
   maxY |-> RMaxOf({RAdd(ls[i].y, ls[i].height) : i \in 1..Len(ls)})]

\* an alignment whose "top" moves the layer to the corner of the boundary
AlignOneTopToCorner(l, b, type) ==
  LET centerX == RHalf(RAdd(b.minX, b.maxX))
      centerY == RHalf(RAdd(b.minY, b.maxY))
  IN  CASE type = "left"     -> [l EXCEPT !.x = b.minX]
        [] type = "center-h" -> [l EXCEPT !.x = RSub(centerX, RHalf(l.width))]
        [] type = "right"    -> [l EXCEPT !.x = RSub(b.maxX, l.width)]
        [] type = "top"      -> [l EXCEPT !.y = b.minY, !.x = b.minX]
        [] type = "middle-v" -> [l EXCEPT !.y = RSub(centerY, RHalf(l.height))]
        [] type = "bottom"   -> [l EXCEPT !.y = RSub(b.maxY, l.height)]

\* an alignment whose "right" puts the left edge at the right boundary
AlignOneRightIgnoresWidth(l, b, type) ==
  LET centerX == RHalf(RAdd(b.minX, b.maxX))
      centerY == RHalf(RAdd(b.minY, b.maxY))
  IN  CASE type = "left"     -> [l EXCEPT !.x = b.minX]
        [] type = "center-h" -> [l EXCEPT !.x = RSub(centerX, RHalf(l.width))]
        [] type = "right"    -> [l EXCEPT !.x = b.maxX]
        [] type = "top"      -> [l EXCEPT !.y = b.minY]
        [] type = "middle-v" -> [l EXCEPT !.y = RSub(centerY, RHalf(l.height))]
        [] type = "bottom"   -> [l EXCEPT !.y = RSub(b.maxY, l.height)]

\* an alignment whose "right" and "bottom" do what "left" and "top" do
AlignOneFarAsNear(l, b, type) ==
  LET centerX == RHalf(RAdd(b.minX, b.maxX))
      centerY == RHalf(RAdd(b.minY, b.maxY))
  IN  CASE type = "left"     -> [l EXCEPT !.x = b.minX]
        [] type = "center-h" -> [l EXCEPT !.x = RSub(centerX, RHalf(l.width))]
        [] type = "right"    -> [l EXCEPT !.x = b.minX]
        [] type = "top"      -> [l EXCEPT !.y = b.minY]
        [] type = "middle-v" -> [l EXCEPT !.y = RSub(centerY, RHalf(l.height))]
        [] type = "bottom"   -> [l EXCEPT !.y = b.minY]

\* the body of targetLayers.map: the new position of one selected layer
AlignOne(l, b, type) ==
  LET centerX == RHalf(RAdd(b.minX, b.maxX))
      centerY == RHalf(RAdd(b.minY, b.maxY))
  IN  CASE type = "left"     -> [l EXCEPT !.x = b.minX]
        [] type = "center-h" -> [l EXCEPT !.x = RSub(centerX, RHalf(l.width))]
        [] type = "right"    -> [l EXCEPT !.x = RSub(b.maxX, l.width)]
        [] type = "top"      -> [l EXCEPT !.y = b.minY]
        [] type = "middle-v" -> [l EXCEPT !.y = RSub(centerY, RHalf(l.height))]
        [] type = "bottom"   -> [l EXCEPT !.y = RSub(b.maxY, l.height)]

handleAlignUtil(ls, selectedIds, type) ==
  IF Cardinality(selectedIds) < 2 THEN ls
  ELSE LET targetLayers == FilterIn(ls, selectedIds)
       IN  IF Len(targetLayers) = 0 THEN ls
           ELSE LET b == BoundsOf(targetLayers)
                    aligned == [i \in 1..Len(targetLayers) |->
                                  AlignOne(targetLayers[i], b, type)]
                IN  [i \in 1..Len(ls) |->
                       IF ls[i].id \in selectedIds
                       THEN FindLayer(aligned, ls[i].id)
                       ELSE ls[i]]

(***************************************************************************)
(* Auto-stitch (src/utils/alignmentUtils.ts, handleAutoStitch, and the     *)
(* handler of the same name in src/App.tsx, lines 320-394, which is the    *)
(* one the stitch buttons call)                                            *)
(***************************************************************************)
StitchDirections == {"vertical", "horizontal"}

\* the scoped layers in the order of the layer panel
StitchTargets(ls, selectedIds, settings) ==
  IF settings.stitchScope = "all" THEN Reverse(ls)
  ELSE Reverse(FilterIn(ls, selectedIds))

\* the smart-stitch resizing of one layer to the reference dimension
StitchResize(layer, smartStitch, direction, referenceDimension) ==
  IF smartStitch /\ direction = "vertical" /\ layer.width # referenceDimension
  THEN [layer EXCEPT !.width = referenceDimension,
                     !.height = RDiv(referenceDimension, RDiv(layer.width, layer.height))]
  ELSE IF smartStitch /\ direction = "horizontal" /\ layer.height # referenceDimension
  THEN [layer EXCEPT !.height = referenceDimension,
                     !.width = RMul(referenceDimension, RDiv(layer.width, layer.height))]
  ELSE layer

\* a positioning loop that also moves the first element on by the gap
RECURSIVE StitchPlaceShiftingFirst(_, _, _, _, _, _)
StitchPlaceShiftingFirst(processed, i, runningPos, alignPos, gap, direction) ==
  IF i > Len(processed) THEN <<>>
  ELSE LET pos == RAdd(IF i > 1 THEN runningPos
                       ELSE IF direction = "vertical" THEN processed[i].y
                       ELSE processed[i].x, gap)
       IN  IF direction = "vertical"
           THEN <<[processed[i] EXCEPT !.x = alignPos, !.y = pos]>>
                \o StitchPlaceShiftingFirst(processed, i + 1,
                                            RAdd(pos, processed[i].height),
                                            alignPos, gap, direction)
           ELSE <<[processed[i] EXCEPT !.y = alignPos, !.x = pos]>>
                \o StitchPlaceShiftingFirst(processed, i + 1,
                                            RAdd(pos, processed[i].width),
                                            alignPos, gap, direction)

\* a positioning loop that places every later element against the first
RECURSIVE StitchPlaceAgainstFirst(_, _, _, _, _, _)
StitchPlaceAgainstFirst(processed, i, runningPos, alignPos, gap, direction) ==
  IF i > Len(processed) THEN <<>>
  ELSE IF direction = "vertical"
  THEN <<[processed[i] EXCEPT !.x = IF i > 1 THEN alignPos ELSE @,
                              !.y = IF i > 1 THEN RAdd(runningPos, gap) ELSE @]>>
       \o StitchPlaceAgainstFirst(processed, i + 1,
              IF i > 1 THEN runningPos ELSE RAdd(processed[i].y, processed[i].height),
              alignPos, gap, direction)
  ELSE <<[processed[i] EXCEPT !.y = IF i > 1 THEN alignPos ELSE @,
                              !.x = IF i > 1 THEN RAdd(runningPos, gap) ELSE @]>>
       \o StitchPlaceAgainstFirst(processed, i + 1,
              IF i > 1 THEN runningPos ELSE RAdd(processed[i].x, processed[i].width),
              alignPos, gap, direction)

\* the positioning loop from element i on; runningPos is the far edge of the
\* element placed before
RECURSIVE StitchPlace(_, _, _, _, _, _)
StitchPlace(processed, i, runningPos, alignPos, gap, direction) ==
  IF i > Len(processed) THEN <<>>
  ELSE IF direction = "vertical"
  THEN <<[processed[i] EXCEPT !.x = IF i > 1 THEN alignPos ELSE @,
                              !.y = IF i > 1 THEN RAdd(runningPos, gap) ELSE @]>>
       \o StitchPlace(processed, i + 1,
                      RAdd(IF i > 1 THEN RAdd(runningPos, gap) ELSE processed[i].y,
                           processed[i].height),
                      alignPos, gap, direction)
  ELSE <<[processed[i] EXCEPT !.y = IF i > 1 THEN alignPos ELSE @,
                              !.x = IF i > 1 THEN RAdd(runningPos, gap) ELSE @]>>
       \o StitchPlace(processed, i + 1,
                      RAdd(IF i > 1 THEN RAdd(runningPos, gap) ELSE processed[i].x,
                           processed[i].width),
                      alignPos, gap, direction)

\* the stitch of the targets t with the given reference dimension, merged
\* back into the layer list
Stitched(ls, t, settings, direction, referenceDimension) ==
  MergeById(ls,
    StitchPlace([i \in 1..Len(t) |->
                   StitchResize(t[i], settings.smartStitch, direction, referenceDimension)],
                1, R(0),
                IF direction = "vertical" THEN t[1].x ELSE t[1].y,
                R(settings.stitchGap), direction))

\* alignmentUtils.ts: the reference dimension is the largest of the targets
StitchMaxDimension(t, direction) ==
  RMaxOf({IF direction = "vertical" THEN t[i].width ELSE t[i].height : i \in 1..Len(t)})

handleAutoStitchUtil(ls, selectedIds, settings, direction) ==
  IF Len(ls) = 0 THEN ls
  ELSE IF Len(StitchTargets(ls, selectedIds, settings)) = 0 THEN ls
  ELSE Stitched(ls, StitchTargets(ls, selectedIds, settings), settings, direction,
                StitchMaxDimension(StitchTargets(ls, selectedIds, settings), direction))

\* App.tsx: the reference dimension is that of the first target
StitchFirstDimension(t, direction) ==
  IF direction = "vertical" THEN t[1].width ELSE t[1].height

(***************************************************************************)
(* Grid layout (src/utils/gridLayoutUtils.ts; App.tsx runs the same code   *)
(* inline in its handleGridLayout)                                         *)
(***************************************************************************)
\* window.innerWidth / window.innerHeight
Window == [innerWidth |-> 1000, innerHeight |-> 800]

\* viewport-centre of the window in the code's formula: -pan + (inner / 2) / zoom
ViewportCenter(pan, zoom) ==
  [x |-> RAdd(RNeg(pan.x), RDiv(RHalf(R(Window.innerWidth)), zoom)),
   y |-> RAdd(RNeg(pan.y), RDiv(RHalf(R(Window.innerHeight)), zoom))]

\* typeof settings.gridRows === 'number' ? settings.gridRows : 2
GridCount(v) == IF IsNull(v) THEN 2 ELSE Val(v)

\* a traversal in the order of the layer sequence
GridTargetsInSequenceOrder(ls, selectedIds, settings) ==
  LET t == IF settings.stitchScope = "all" THEN ls
           ELSE FilterIn(ls, selectedIds)
  IN  IF settings.gridReverse THEN Reverse(t) ELSE t

\* the scoped layers in traversal order
GridTargets(ls, selectedIds, settings) ==
  LET t == IF settings.stitchScope = "all" THEN Reverse(ls)
           ELSE Reverse(FilterIn(ls, selectedIds))
  IN  IF settings.gridReverse THEN Reverse(t) ELSE t

\* a cell assignment that swaps the roles of rows and columns
GridCellTransposed(index, rows, cols, direction) ==
  IF direction = "horizontal"
  THEN [row |-> index % cols, col |-> index \div cols]
  ELSE [col |-> index % rows, row |-> index \div rows]

\* the cell of the layer at 0-based traversal index
GridCell(index, rows, cols, direction) ==
  IF direction = "horizontal"
  THEN [row |-> index \div cols, col |-> index % cols]
  ELSE [col |-> index \div rows, row |-> index % rows]

\* a capacity test that lets one layer more into the grid
GridHasCellThroughCapacity(index, rows, cols) == index <= rows * cols

\* the negation of "if (index >= rows * cols) return" in both passes
GridHasCell(index, rows, cols) == index < rows * cols

\* colWidths[col] / rowHeights[row] after the first pass
ColWidth(t, rows, cols, direction, col) ==
  RMaxOf({R(0)} \cup {t[i].width : i \in {j \in 1..Len(t) :
             /\ GridHasCell(j - 1, rows, cols)
             /\ GridCell(j - 1, rows, cols, direction).col = col}})
RowHeight(t, rows, cols, direction, row) ==
  RMaxOf({R(0)} \cup {t[i].height : i \in {j \in 1..Len(t) :
             /\ GridHasCell(j - 1, rows, cols)
             /\ GridCell(j - 1, rows, cols, direction).row = row}})

RECURSIVE SumTo(_, _)
\* arr.slice(0, n).reduce((sum, v) => sum + v, 0) for arr[k] = F(k), k from 0
SumTo(F(_), n) == IF n <= 0 THEN R(0) ELSE RAdd(SumTo(F, n - 1), F(n - 1))

\* the body of targetLayers.map in the second pass
GridPlace(t, i, rows, cols, direction, gap, pan, zoom) ==
  LET layer == t[i]
      cw(c) == ColWidth(t, rows, cols, direction, c)
      rh(r) == RowHeight(t, rows, cols, direction, r)
      totalWidth == RAdd(SumTo(cw, cols), R((cols - 1) * gap))
      totalHeight == RAdd(SumTo(rh, rows), R((rows - 1) * gap))
      vc == ViewportCenter(pan, zoom)
      startX == RSub(vc.x, RHalf(totalWidth))
      startY == RSub(vc.y, RHalf(totalHeight))
      cell == GridCell(i - 1, rows, cols, direction)
      cellX == RAdd(RAdd(startX, SumTo(cw, cell.col)), R(cell.col * gap))
      cellY == RAdd(RAdd(startY, SumTo(rh, cell.row)), R(cell.row * gap))
      cellWidth == cw(cell.col)
      cellHeight == rh(cell.row)
      aspectRatio == RDiv(layer.width, layer.height)
      fitH == RDiv(cellWidth, aspectRatio)
      over == RLt(cellHeight, fitH)
      newWidth == IF over THEN RMul(cellHeight, aspectRatio) ELSE cellWidth
      newHeight == IF over THEN cellHeight ELSE fitH
  IN  IF ~GridHasCell(i - 1, rows, cols) THEN layer
      ELSE [layer EXCEPT !.x = RAdd(cellX, RHalf(RSub(cellWidth, newWidth))),
                         !.y = RAdd(cellY, RHalf(RSub(cellHeight, newHeight))),
                         !.width = newWidth,
                         !.height = newHeight]

handleGridLayoutUtil(ls, selectedIds, settings, pan, zoom) ==
  IF Len(ls) = 0 THEN ls
  ELSE LET t == GridTargets(ls, selectedIds, settings)
           rows == GridCount(settings.gridRows)
           cols == GridCount(settings.gridCols)
       IN  IF Len(t) = 0 THEN ls
           ELSE MergeById(ls, [i \in 1..Len(t) |->
                   GridPlace(t, i, rows, cols, settings.gridDirection,
                             settings.stitchGap, pan, zoom)])

(***************************************************************************)
(* Viewport (src/unnamed/part_003, lines 62-141: the canvasUtils functions)*)
(***************************************************************************)
\* the canvas container: getBoundingClientRect() and clientWidth/clientHeight
Container == [left |-> 0, top |-> 0, width |-> 1000, height |-> 800]

ZoomMin == Rat(1, 5)
ZoomMax == R(3)

Pt(x, y) == [x |-> x, y |-> y]

getCanvasCoordinates(clientX, clientY, pan, zoom) ==
  Pt(RDiv(RSub(RSub(clientX, R(Container.left)), pan.x), zoom),
     RDiv(RSub(RSub(clientY, R(Container.top)), pan.y), zoom))

\* Math.min(3, Math.max(0.2, z))
ClampZoom(z) == RMin(ZoomMax, RMax(ZoomMin, z))

\* anchor is Null (default: the centre of the container) or Some(point)
zoomAtPointUtil(newZoom, zoom, pan, anchor) ==
  LET clampedZoom == ClampZoom(newZoom)
      point == IF IsNull(anchor)
               THEN Pt(RHalf(R(Container.width)), RHalf(R(Container.height)))
               ELSE Val(anchor)
      zoomRatio == RDiv(clampedZoom, zoom)
  IN  [zoom |-> clampedZoom,
       pan |-> Pt(RSub(point.x, RMul(RSub(point.x, pan.x), zoomRatio)),
                  RSub(point.y, RMul(RSub(point.y, pan.y), zoomRatio)))]

FitPadding == 50

handleFitViewUtil(ls) ==
  IF Len(ls) = 0 THEN [zoom |-> R(1), pan |-> Pt(R(0), R(0))]
  ELSE LET b == BoundsOf(ls)
           contentWidth == RSub(b.maxX, b.minX)
           contentHeight == RSub(b.maxY, b.minY)
           scaleX == RDiv(R(Container.width - FitPadding * 2), contentWidth)
           scaleY == RDiv(R(Container.height - FitPadding * 2), contentHeight)
           newZoom == RMin(ZoomMax, RMin(scaleX, scaleY))
       IN  [zoom |-> newZoom,
            pan |-> Pt(RSub(RHalf(RSub(R(Container.width), RMul(contentWidth, newZoom))),
                            RMul(b.minX, newZoom)),
                       RSub(RHalf(RSub(R(Container.height), RMul(contentHeight, newZoom))),
                            RMul(b.minY, newZoom)))]

(***************************************************************************)
(* History manager (src/unnamed/part_005, lines 1-43: useHistory).  The    *)
(* index is 0-based as in the code; entry k of the code is hist[k + 1].    *)
(***************************************************************************)
\* a push that keeps the entries after the current one
pushHistoryKeepingRedo(hist, index, newLayers) ==
  LET newHistory == Append(hist, newLayers)
  IN  [history |-> newHistory, historyIndex |-> Len(newHistory) - 1]

\* an undo that answers with the first entry when there is none before
undoAtStartReturnsEntry(hist, index) ==
  IF index > 0
  THEN [historyIndex |-> index - 1, ret |-> Some(hist[index])]
  ELSE [historyIndex |-> index, ret |-> Some(hist[1])]

pushHistory(hist, index, newLayers) ==
  LET newHistory == Append(SubSeq(hist, 1, index + 1), newLayers)
  IN  [history |-> newHistory, historyIndex |-> Len(newHistory) - 1]

\* the value returned (Null for the code's null) and the index afterwards
undo(hist, index) ==
  IF index > 0
  THEN [historyIndex |-> index - 1, ret |-> Some(hist[index])]
  ELSE [historyIndex |-> index, ret |-> Null]

redo(hist, index) ==
  IF index < Len(hist) - 1
  THEN [historyIndex |-> index + 1, ret |-> Some(hist[index + 2])]
  ELSE [historyIndex |-> index, ret |-> Null]

(***************************************************************************)
(* The state of the App component (src/App.tsx, lines 40-119) as a record, *)
(* and its event handlers as functions from the state at the time of the   *)
(* event (the state of the last render plus the dragState ref) to the      *)
(* state after it.  selectedIds is a JavaScript Set: a sequence without    *)
(* repetitions in insertion order.  nextId stands for Math.random(): the   *)
(* ids it yields are taken to be fresh.                                    *)
(***************************************************************************)
\* src/unnamed/part_000 (constants/settings.ts)
INITIAL_SETTINGS ==
  [snapToGrid |-> TRUE, snapThreshold |-> 10, keepAspectRatio |-> TRUE,
   stitchGap |-> 0, smartStitch |-> FALSE, stitchScope |-> "all",
   gridRows |-> Some(2), gridCols |-> Some(2), autoCalcGrid |-> TRUE,
   gridDirection |-> "horizontal", gridReverse |-> FALSE]

DragIdle ==
  [isDragging |-> FALSE, isResizing |-> FALSE, isPanning |-> FALSE,
   isSelecting |-> FALSE, isPinching |-> FALSE, hasMoved |-> FALSE,
   startX |-> R(0), startY |-> R(0), initialPan |-> Pt(R(0), R(0)),
   initialLayers |-> <<>>, handle |-> Null, clickedLayerId |-> Null,
   pinchStartDistance |-> R(0), pinchStartZoom |-> R(1),
   pinchCenter |-> Pt(R(0), R(0)), isAltDragging |-> FALSE,
   clonedLayerIds |-> <<>>]

AppInit ==
  [layers |-> <<>>, selectedIds |-> <<>>, settings |-> INITIAL_SETTINGS,
   zoom |-> R(1), pan |-> Pt(R(0), R(0)), isBatchSelectMode |-> FALSE,
   isSidebarOpen |-> TRUE, selectionBox |-> Null, snapGuides |-> <<>>,
   dragState |-> DragIdle, history |-> << <<>> >>, historyIndex |-> 0,
   nextId |-> 1]

SelHas(sel, id) == id \in Range(sel)
SelAdd(sel, id) == IF SelHas(sel, id) THEN sel ELSE Append(sel, id)
SelDel(sel, id) == SelectSeq(sel, LAMBDA x : x # id)

\* setLayers(ls); pushHistory(ls) of one handler
CommitLayers(s, ls) ==
  LET h == pushHistory(s.history, s.historyIndex, ls)
  IN  [s EXCEPT !.layers = ls, !.history = h.history, !.historyIndex = h.historyIndex]

\* an undo that moves the index and leaves the layers on the canvas
handleUndoKeepingLayers(s) ==
  [s EXCEPT !.historyIndex = undo(s.history, s.historyIndex).historyIndex]

handleUndo(s) ==
  LET r == undo(s.history, s.historyIndex)
  IN  [s EXCEPT !.historyIndex = r.historyIndex,
                !.layers = IF IsNull(r.ret) THEN @ ELSE Val(r.ret)]

handleRedo(s) ==
  LET r == redo(s.history, s.historyIndex)
  IN  [s EXCEPT !.historyIndex = r.historyIndex,
                !.layers = IF IsNull(r.ret) THEN @ ELSE Val(r.ret)]

\* the layers whose name matches ^<nameWithoutExt>_\d+ (App.tsx 722-727)
IsCloneNameOf(n, orig) ==
  /\ n.base = orig.base
  /\ Len(n.nums) > Len(orig.nums)
  /\ SubSeq(n.nums, 1, Len(orig.nums)) = orig.nums

CloneName(ls, orig) ==
  [orig EXCEPT !.nums = Append(@, 1 + Cardinality({i \in 1..Len(ls) :
                                         IsCloneNameOf(ls[i].name, orig)}))]

\* an Alt pointer-down that clones only the first layer of the selection
ClonesOfFirst(s, sel) ==
  LET present == SelectSeq(sel, LAMBDA id : id \in Ids(s.layers))
  IN  [k \in 1..(IF present = <<>> THEN 0 ELSE 1) |->
         LET o == FindLayer(s.layers, present[k])
         IN  [o EXCEPT !.id = s.nextId + k - 1, !.name = CloneName(s.layers, o.name)]]

\* the clones made by an Alt pointer-down, in the iteration order of the selection
ClonesOf(s, sel) ==
  LET present == SelectSeq(sel, LAMBDA id : id \in Ids(s.layers))
  IN  [k \in 1..Len(present) |->
         LET o == FindLayer(s.layers, present[k])
         IN  [o EXCEPT !.id = s.nextId + k - 1, !.name = CloneName(s.layers, o.name)]]

RectMap(ls, ids) == [id \in (ids \cap Ids(ls)) |-> RectOf(FindLayer(ls, id))]

\* e = [button, clientX, clientY, shiftKey, altKey]; layerId / handle: Null or Some
handlePointerDown(s, e, layerId, handle) ==
  LET ds == s.dragState IN
  IF e.button = 1
  THEN [s EXCEPT !.dragState = [ds EXCEPT !.isPanning = TRUE, !.startX = e.clientX,
                                          !.startY = e.clientY, !.initialPan = s.pan]]
  ELSE IF e.button # 0 THEN s
  ELSE LET s0 == [s EXCEPT !.isSidebarOpen =
                     IF Window.innerWidth < 768 /\ IsNull(layerId) THEN FALSE ELSE @]
       IN
       IF ~IsNull(layerId)
       THEN LET id == Val(layerId)
                coords == getCanvasCoordinates(e.clientX, e.clientY, s.pan, s.zoom)
                isMultiSelect == e.shiftKey \/ s.isBatchSelectMode
                has == SelHas(s.selectedIds, id)
                newSelectedIds ==
                  IF isMultiSelect THEN SelAdd(s.selectedIds, id)
                  ELSE IF ~IsNull(handle) \/ ~has THEN <<id>> ELSE s.selectedIds
                ds1 == [ds EXCEPT !.startX = coords.x, !.startY = coords.y,
                                  !.clickedLayerId =
                                     IF isMultiSelect /\ has THEN Some(id) ELSE @]
                clones == ClonesOf(s, newSelectedIds)
            IN  IF ~IsNull(handle)
                THEN [s0 EXCEPT !.selectedIds = newSelectedIds,
                                !.dragState = [ds1 EXCEPT !.isResizing = TRUE,
                                                 !.handle = handle,
                                                 !.initialLayers = RectMap(s.layers, {id})]]
                ELSE IF e.altKey
                THEN [s0 EXCEPT !.layers = s.layers \o clones,
                                !.selectedIds = [k \in 1..Len(clones) |-> clones[k].id],
                                !.nextId = s.nextId + Len(clones),
                                !.dragState = [ds1 EXCEPT !.isAltDragging = TRUE,
                                                 !.clonedLayerIds =
                                                    [k \in 1..Len(clones) |->
                                                       <<SelectSeq(newSelectedIds,
                                                           LAMBDA i : i \in Ids(s.layers))[k],
                                                         clones[k].id>>],
                                                 !.initialLayers = RectMap(clones, Ids(clones)),
                                                 !.isDragging = TRUE]]
                ELSE [s0 EXCEPT !.selectedIds = newSelectedIds,
                                !.dragState = [ds1 EXCEPT
                                                 !.initialLayers =
                                                    RectMap(s.layers, Range(newSelectedIds)),
                                                 !.isDragging = TRUE]]
       ELSE IF s.isBatchSelectMode
       THEN [s0 EXCEPT !.dragState = [ds EXCEPT !.isSelecting = TRUE,
                                        !.startX = e.clientX, !.startY = e.clientY],
                       !.selectionBox = Some([startX |-> e.clientX, startY |-> e.clientY,
                                              endX |-> e.clientX, endY |-> e.clientY])]
       ELSE [s0 EXCEPT !.selectedIds = IF e.shiftKey THEN @ ELSE <<>>,
                       !.dragState = [ds EXCEPT !.isPanning = TRUE,
                                        !.startX = e.clientX, !.startY = e.clientY,
                                        !.initialPan = s.pan]]

\* snapDelta ?? 0 of the resize branch
OrZero(delta) == IF IsNull(delta) THEN R(0) ELSE Val(delta)

\* the rectangle the resize branch stores, for the proposed rectangle and
\* the two snap deltas (App.tsx 836-857)
ResizeSnapped(handle, snapOn, proposed, snapDx, snapDy) ==
  IF ~snapOn THEN proposed
  ELSE [x |-> IF HandleHas(handle, "w") THEN RAdd(proposed.x, snapDx) ELSE proposed.x,
        y |-> IF HandleHas(handle, "n") THEN RAdd(proposed.y, snapDy) ELSE proposed.y,
        width |-> IF HandleHas(handle, "e") THEN RAdd(proposed.width, snapDx)
                  ELSE IF HandleHas(handle, "w") THEN RSub(proposed.width, snapDx)
                  ELSE proposed.width,
        height |-> IF HandleHas(handle, "s") THEN RAdd(proposed.height, snapDy)
                   ELSE IF HandleHas(handle, "n") THEN RSub(proposed.height, snapDy)
                   ELSE proposed.height]

WithRect(l, r) ==
  [l EXCEPT !.x = r.x, !.y = r.y, !.width = r.width, !.height = r.height]

\* the snap deltas of the proposed rectangle against the edges of the others
ResizeSnap(handle, snapOn, proposed, xTargets, yTargets, scaledThreshold) ==
  ResizeSnapped(handle, snapOn, proposed,
    OrZero(IF HandleHas(handle, "e")
           THEN getSnapDelta(RAdd(proposed.x, proposed.width), xTargets, scaledThreshold)
           ELSE IF HandleHas(handle, "w")
           THEN getSnapDelta(proposed.x, xTargets, scaledThreshold)
           ELSE Null),
    OrZero(IF HandleHas(handle, "s")
           THEN getSnapDelta(RAdd(proposed.y, proposed.height), yTargets, scaledThreshold)
           ELSE IF HandleHas(handle, "n")
           THEN getSnapDelta(proposed.y, yTargets, scaledThreshold)
           ELSE Null))

OthersOf(s, l) == SelectSeq(s.layers, LAMBDA o : o.id # l.id)

\* the resize branch of the layers.map of handlePointerMove (App.tsx 817-859)
MoveResize(s, l, init, dx, dy) ==
  WithRect(l,
    ResizeSnap(Val(s.dragState.handle), s.settings.snapToGrid,
               resizeLayer(init, Val(s.dragState.handle), dx, dy,
                           s.settings.keepAspectRatio),
               <<R(0)>> \o EdgeTargets(OthersOf(s, l), "x"),
               <<R(0)>> \o EdgeTargets(OthersOf(s, l), "y"),
               RDiv(R(s.settings.snapThreshold), s.zoom)))

\* the bounding rectangle of the moved rectangles
GroupRect(b) ==
  [x |-> b.minX, y |-> b.minY,
   width |-> RSub(b.maxX, b.minX), height |-> RSub(b.maxY, b.minY)]

MovedRects(initial, dx, dy) ==
  [k \in 1..Cardinality(DOMAIN initial) |->
     LET id == CHOOSE i \in DOMAIN initial :
                 Cardinality({j \in DOMAIN initial : j < i}) = k - 1
     IN  [x |-> RAdd(initial[id].x, dx), y |-> RAdd(initial[id].y, dy),
          width |-> initial[id].width, height |-> initial[id].height]]

\* a drag branch that snaps every dragged layer by its own rectangle
MoveDragSnapEach(s, init, dx, dy) ==
  IF ~s.settings.snapToGrid THEN Null
  ELSE Some(getSnapLines(
              [x |-> RAdd(init.x, dx), y |-> RAdd(init.y, dy),
               width |-> init.width, height |-> init.height],
              SelectSeq(s.layers,
                        LAMBDA o : o.id \notin DOMAIN s.dragState.initialLayers),
              R(5000), R(5000), RDiv(R(s.settings.snapThreshold), s.zoom)))

\* the snap result of the drag branch for one dragged layer (App.tsx 864-901):
\* Null when snapping is off, else the result of getSnapLines
\* a snap that takes the edges of every layer, dragged or not, as targets
MoveDragSnapAmongAll(s, init, dx, dy) ==
  IF ~s.settings.snapToGrid THEN Null
  ELSE Some(getSnapLines(
              IF Cardinality(DOMAIN s.dragState.initialLayers) > 1
              THEN GroupRect(BoundsOf(MovedRects(s.dragState.initialLayers, dx, dy)))
              ELSE [x |-> RAdd(init.x, dx), y |-> RAdd(init.y, dy),
                    width |-> init.width, height |-> init.height],
              s.layers,
              R(5000), R(5000), RDiv(R(s.settings.snapThreshold), s.zoom)))

MoveDragSnap(s, init, dx, dy) ==
  IF ~s.settings.snapToGrid THEN Null
  ELSE Some(getSnapLines(
              IF Cardinality(DOMAIN s.dragState.initialLayers) > 1
              THEN GroupRect(BoundsOf(MovedRects(s.dragState.initialLayers, dx, dy)))
              ELSE [x |-> RAdd(init.x, dx), y |-> RAdd(init.y, dy),
                    width |-> init.width, height |-> init.height],
              SelectSeq(s.layers,
                        LAMBDA o : o.id \notin DOMAIN s.dragState.initialLayers),
              R(5000), R(5000), RDiv(R(s.settings.snapThreshold), s.zoom)))

\* a drag that adds the displacement to the layer's current position
MoveDragFromCurrent(s, l, init, dx, dy) ==
  [l EXCEPT !.x = RAdd(l.x, dx), !.y = RAdd(l.y, dy)]

\* snap.x / snap.y of the snap result, 0 when there is none
SnapX(snap) == IF IsNull(snap) THEN R(0) ELSE OrZero(Val(snap).x)
SnapY(snap) == IF IsNull(snap) THEN R(0) ELSE OrZero(Val(snap).y)

Shifted(l, init, dx, dy, snap) ==
  [l EXCEPT !.x = RAdd(RAdd(init.x, dx), SnapX(snap)),
            !.y = RAdd(RAdd(init.y, dy), SnapY(snap))]

MoveDrag(s, l, init, dx, dy) == Shifted(l, init, dx, dy, MoveDragSnap(s, init, dx, dy))

\* the layer of the affected ones that layers.map visits last
LastAffected(s) ==
  LET affected == {i \in 1..Len(s.layers) :
                     s.layers[i].id \in DOMAIN s.dragState.initialLayers}
  IN  IF affected = {} THEN Null
      ELSE Some(s.layers[CHOOSE i \in affected : \A j \in affected : j <= i].id)

\* the drag and resize part of handlePointerMove (App.tsx 800-906) for the
\* displacement dx, dy from the gesture's start
MovedBy(s, dx, dy) ==
  [s EXCEPT
     !.dragState.hasMoved =
        @ \/ RLt(RDiv(R(3), s.zoom), RAbs(dx)) \/ RLt(RDiv(R(3), s.zoom), RAbs(dy)),
     !.layers = [i \in 1..Len(s.layers) |->
                   IF s.layers[i].id \notin DOMAIN s.dragState.initialLayers
                   THEN s.layers[i]
                   ELSE IF s.dragState.isResizing
                   THEN MoveResize(s, s.layers[i],
                                   s.dragState.initialLayers[s.layers[i].id], dx, dy)
                   ELSE MoveDrag(s, s.layers[i],
                                 s.dragState.initialLayers[s.layers[i].id], dx, dy)],
     !.snapGuides =
        IF s.dragState.isResizing \/ ~s.settings.snapToGrid \/ IsNull(LastAffected(s))
        THEN @
        ELSE Val(MoveDragSnap(s, s.dragState.initialLayers[Val(LastAffected(s))],
                              dx, dy)).guides]

MovedTo(s, coords) ==
  MovedBy(s, RSub(coords.x, s.dragState.startX), RSub(coords.y, s.dragState.startY))

\* e = [clientX, clientY]
handlePointerMove(s, e) ==
  LET ds == s.dragState IN
  IF ~ds.isDragging /\ ~ds.isResizing /\ ~ds.isPanning /\ ~ds.isSelecting THEN s
  ELSE IF ds.isSelecting
  THEN [s EXCEPT !.selectionBox =
          IF IsNull(@) THEN Null
          ELSE Some([Val(@) EXCEPT !.endX = e.clientX, !.endY = e.clientY])]
  ELSE IF ds.isPanning
  THEN [s EXCEPT !.pan = Pt(RAdd(ds.initialPan.x, RSub(e.clientX, ds.startX)),
                            RAdd(ds.initialPan.y, RSub(e.clientY, ds.startY)))]
  ELSE MovedTo(s, getCanvasCoordinates(e.clientX, e.clientY, s.pan, s.zoom))

\* a marquee that hits the layers it contains
MarqueeHitsContained(s) ==
  LET box == Val(s.selectionBox)
      canvasStart == getCanvasCoordinates(box.startX, box.startY, s.pan, s.zoom)
      canvasEnd == getCanvasCoordinates(box.endX, box.endY, s.pan, s.zoom)
  IN  SelectSeq(s.layers, LAMBDA l :
        /\ RLe(RMin(canvasStart.x, canvasEnd.x), l.x)
        /\ RLe(RAdd(l.x, l.width), RMax(canvasStart.x, canvasEnd.x))
        /\ RLe(RMin(canvasStart.y, canvasEnd.y), l.y)
        /\ RLe(RAdd(l.y, l.height), RMax(canvasStart.y, canvasEnd.y)))

\* the layers hit by the marquee (App.tsx 911-922)
MarqueeHits(s) ==
  LET box == Val(s.selectionBox)
      canvasStart == getCanvasCoordinates(box.startX, box.startY, s.pan, s.zoom)
      canvasEnd == getCanvasCoordinates(box.endX, box.endY, s.pan, s.zoom)
      minX == RMin(canvasStart.x, canvasEnd.x)
      maxX == RMax(canvasStart.x, canvasEnd.x)
      minY == RMin(canvasStart.y, canvasEnd.y)
      maxY == RMax(canvasStart.y, canvasEnd.y)
  IN  SelectSeq(s.layers, LAMBDA l :
        /\ RLt(l.x, maxX) /\ RLt(minX, RAdd(l.x, l.width))
        /\ RLt(l.y, maxY) /\ RLt(minY, RAdd(l.y, l.height)))

RECURSIVE SelAddAll(_, _)
SelAddAll(sel, ls) ==
  IF ls = <<>> THEN sel ELSE SelAddAll(SelAdd(sel, Head(ls).id), Tail(ls))

\* a pointer-up that leaves the snap guides on the screen
handlePointerUpKeepingGuides(s, e) ==
  LET ds == s.dragState
      marquee == ds.isSelecting /\ ~IsNull(s.selectionBox)
      sel1 == IF ~marquee THEN s.selectedIds
              ELSE IF e.altKey
              THEN SelectSeq(s.selectedIds, LAMBDA id : id \notin Ids(MarqueeHits(s)))
              ELSE SelAddAll(s.selectedIds, MarqueeHits(s))
      toggle == /\ ~IsNull(ds.clickedLayerId) /\ ~ds.hasMoved /\ s.isBatchSelectMode
                /\ SelHas(s.selectedIds, Val(ds.clickedLayerId))
      sel2 == IF toggle THEN SelDel(s.selectedIds, Val(ds.clickedLayerId)) ELSE sel1
      h == IF ds.isDragging \/ ds.isResizing
           THEN pushHistory(s.history, s.historyIndex, s.layers)
           ELSE [history |-> s.history, historyIndex |-> s.historyIndex]
  IN  [s EXCEPT !.selectedIds = sel2,
                !.history = h.history, !.historyIndex = h.historyIndex,
                !.dragState = DragIdle, !.selectionBox = Null]

\* a pointer-up that toggles the clicked layer also after a drag
handlePointerUpTogglingAfterDrag(s, e) ==
  LET ds == s.dragState
      marquee == ds.isSelecting /\ ~IsNull(s.selectionBox)
      sel1 == IF ~marquee THEN s.selectedIds
              ELSE IF e.altKey
              THEN SelectSeq(s.selectedIds, LAMBDA id : id \notin Ids(MarqueeHits(s)))
              ELSE SelAddAll(s.selectedIds, MarqueeHits(s))
      toggle == /\ ~IsNull(ds.clickedLayerId) /\ s.isBatchSelectMode
                /\ SelHas(s.selectedIds, Val(ds.clickedLayerId))
      sel2 == IF toggle THEN SelDel(s.selectedIds, Val(ds.clickedLayerId)) ELSE sel1
      h == IF ds.isDragging \/ ds.isResizing
           THEN pushHistory(s.history, s.historyIndex, s.layers)
           ELSE [history |-> s.history, historyIndex |-> s.historyIndex]
  IN  [s EXCEPT !.selectedIds = sel2,
                !.history = h.history, !.historyIndex = h.historyIndex,
                !.dragState = DragIdle, !.selectionBox = Null, !.snapGuides = <<>>]

\* e = [altKey]
handlePointerUp(s, e) ==
  LET ds == s.dragState
      marquee == ds.isSelecting /\ ~IsNull(s.selectionBox)
      sel1 == IF ~marquee THEN s.selectedIds
              ELSE IF e.altKey
              THEN SelectSeq(s.selectedIds, LAMBDA id : id \notin Ids(MarqueeHits(s)))
              ELSE SelAddAll(s.selectedIds, MarqueeHits(s))
      toggle == /\ ~IsNull(ds.clickedLayerId) /\ ~ds.hasMoved /\ s.isBatchSelectMode
                /\ SelHas(s.selectedIds, Val(ds.clickedLayerId))
      sel2 == IF toggle THEN SelDel(s.selectedIds, Val(ds.clickedLayerId)) ELSE sel1
      h == IF ds.isDragging \/ ds.isResizing
           THEN pushHistory(s.history, s.historyIndex, s.layers)
           ELSE [history |-> s.history, historyIndex |-> s.historyIndex]
  IN  [s EXCEPT !.selectedIds = sel2,
                !.history = h.history, !.historyIndex = h.historyIndex,
                !.dragState = DragIdle, !.selectionBox = Null, !.snapGuides = <<>>]

\* Math.hypot for two touch points on one horizontal or one vertical line
Hypot(dx, dy) == IF dy = R(0) THEN RAbs(dx) ELSE RAbs(dy)

\* touches: the sequence e.touches of client points
handleTouchStart(s, touches) ==
  IF Len(touches) # 2 THEN s
  ELSE [s EXCEPT !.dragState =
          [@ EXCEPT !.isPinching = TRUE,
                    !.pinchStartDistance = Hypot(RSub(touches[2].x, touches[1].x),
                                                 RSub(touches[2].y, touches[1].y)),
                    !.pinchStartZoom = s.zoom,
                    !.pinchCenter =
                       Pt(RSub(RHalf(RAdd(touches[1].x, touches[2].x)), R(Container.left)),
                          RSub(RHalf(RAdd(touches[1].y, touches[2].y)), R(Container.top))),
                    !.initialPan = s.pan]]

handleTouchMove(s, touches) ==
  IF ~(Len(touches) = 2 /\ s.dragState.isPinching) THEN s
  ELSE LET ds == s.dragState
           distance == Hypot(RSub(touches[2].x, touches[1].x),
                             RSub(touches[2].y, touches[1].y))
           scale == RDiv(distance, ds.pinchStartDistance)
           newZoom == ClampZoom(RMul(ds.pinchStartZoom, scale))
           cx == RSub(RHalf(RAdd(touches[1].x, touches[2].x)), R(Container.left))
           cy == RSub(RHalf(RAdd(touches[1].y, touches[2].y)), R(Container.top))
           zoomRatio == RDiv(newZoom, ds.pinchStartZoom)
       IN  [s EXCEPT !.zoom = newZoom,
                     !.pan = Pt(RSub(cx, RMul(RSub(ds.pinchCenter.x, ds.initialPan.x), zoomRatio)),
                                RSub(cy, RMul(RSub(ds.pinchCenter.y, ds.initialPan.y), zoomRatio)))]

\* n: e.touches.length after the finger was lifted
handleTouchEnd(s, n) ==
  IF n < 2 THEN [s EXCEPT !.dragState.isPinching = FALSE] ELSE s

(***************************************************************************)
(* Discrete operations of the App (toolbar, keyboard, layer panel)         *)
(***************************************************************************)
\* App.tsx 1032-1037
deleteSelected(s) ==
  [CommitLayers(s, deleteLayersUtil(s.layers, Range(s.selectedIds)))
     EXCEPT !.selectedIds = <<>>]

\* App.tsx 1064-1067: the layer panel hands over the list in its new order
reorderLayers(s, newLayers) == CommitLayers(s, newLayers)

\* App.tsx 1039-1043
duplicateLayer(s, layerId) ==
  [CommitLayers(s, duplicateLayerUtil(s.layers, layerId, s.nextId))
     EXCEPT !.nextId = @ + 1]

\* App.tsx 1045-1050
deleteLayers(s, layerIds) ==
  [CommitLayers(s, deleteLayersUtil(s.layers, layerIds)) EXCEPT !.selectedIds = <<>>]

bringToFront(s) == CommitLayers(s, bringToFrontUtil(s.layers, Range(s.selectedIds)))
sendToBack(s) == CommitLayers(s, sendToBackUtil(s.layers, Range(s.selectedIds)))

\* App.tsx 1069-1072: new Set(layers.map(l => l.id))
selectAllLayers(s) ==
  [s EXCEPT !.selectedIds =
     SelAddAll(<<>>, s.layers)]

deselectAll(s) == [s EXCEPT !.selectedIds = <<>>]

\* App.tsx 1074-1079
clearCanvas(s) == [CommitLayers(s, clearCanvasUtil) EXCEPT !.selectedIds = <<>>]

\* App.tsx 1231-1236
loadVersion(s, versionLayers) == CommitLayers(s, versionLayers)

\* App.tsx 1238-1317: the layers of canvas_info.json in the package of a
\* saved version; each carries the id the layer has in the version
exportVersionPackage(versionLayers) ==
  [k \in 1..Len(versionLayers) |->
     [id |-> versionLayers[k].id, name |-> versionLayers[k].name,
      x |-> versionLayers[k].x, y |-> versionLayers[k].y,
      width |-> versionLayers[k].width, height |-> versionLayers[k].height]]

\* App.tsx 1320-1380; info: the layers of canvas_info.json, of which one
\* without an id (0 here) gets a fresh one: layerInfo.id || Math.random()...
importVersionPackage(s, info) ==
  IF Len(info) = 0 THEN s
  ELSE [CommitLayers(s, s.layers \o
          [k \in 1..Len(info) |->
             [info[k] EXCEPT !.id = IF @ = 0 THEN s.nextId + k - 1 ELSE @]])
        EXCEPT !.nextId = @ + Len(info)]

\* App.tsx 567-572
handleAlign(s, type) ==
  CommitLayers(s, handleAlignUtil(s.layers, Range(s.selectedIds), type))

\* App.tsx 320-394: returns without a push when there is nothing to stitch
handleAutoStitch(s, direction) ==
  IF Len(s.layers) = 0 THEN s
  ELSE IF Len(StitchTargets(s.layers, Range(s.selectedIds), s.settings)) = 0 THEN s
  ELSE CommitLayers(s,
         Stitched(s.layers, StitchTargets(s.layers, Range(s.selectedIds), s.settings),
                  s.settings, direction,
                  StitchFirstDimension(
                    StitchTargets(s.layers, Range(s.selectedIds), s.settings),
                    direction)))

\* App.tsx 396-518: returns without a push when there is nothing to lay out
handleGridLayout(s) ==
  IF Len(s.layers) = 0 THEN s
  ELSE IF Len(GridTargets(s.layers, Range(s.selectedIds), s.settings)) = 0 THEN s
  ELSE CommitLayers(s, handleGridLayoutUtil(s.layers, Range(s.selectedIds),
                                            s.settings, s.pan, s.zoom))

\* App.tsx 602-610
handleFitView(s, ls) ==
  LET r == handleFitViewUtil(ls) IN [s EXCEPT !.zoom = r.zoom, !.pan = r.pan]

\* App.tsx 613-619
zoomAtPoint(s, newZoom, anchor) ==
  LET r == zoomAtPointUtil(newZoom, s.zoom, s.pan, anchor)
  IN  [s EXCEPT !.zoom = r.zoom, !.pan = r.pan]

\* App.tsx 1569-1591; e = [clientX, clientY, deltaY]
handleWheel(s, e) ==
  LET mouseX == RSub(e.clientX, R(Container.left))
      mouseY == RSub(e.clientY, R(Container.top))
      zoomDelta == RMul(RNeg(e.deltaY), Rat(1, 1000))
      newZoom == ClampZoom(RAdd(s.zoom, zoomDelta))
      zoomRatio == RDiv(newZoom, s.zoom)
  IN  [s EXCEPT !.zoom = newZoom,
                !.pan = Pt(RSub(mouseX, RMul(RSub(mouseX, s.pan.x), zoomRatio)),
                           RSub(mouseY, RMul(RSub(mouseY, s.pan.y), zoomRatio)))]

(***************************************************************************)
(* Import (App.tsx 133-304).  processFiles starts the decoding of the      *)
(* files and returns; the decoders complete in any order; the last one to  *)
(* complete runs finishImport, inside the closure of the render in which   *)
(* processFiles was called.                                                *)
(***************************************************************************)
\* localeCompare on the (lower-case) file names the model imports
NameRank(base) ==
  CASE base = "a" -> 1 [] base = "b" -> 2 [] base = "c" -> 3 [] base = "d" -> 4
    [] base = "e" -> 5

RECURSIVE InsertByName(_, _)
InsertByName(sorted, l) ==
  IF sorted = <<>> THEN <<l>>
  ELSE IF NameRank(l.name.base) < NameRank(Head(sorted).name.base)
  THEN <<l>> \o sorted
  ELSE <<Head(sorted)>> \o InsertByName(Tail(sorted), l)

RECURSIVE SortByName(_)
\* Array.prototype.sort with the name comparator (stable)
SortByName(ls) ==
  IF ls = <<>> THEN <<>>
  ELSE InsertByName(SortByName(SubSeq(ls, 1, Len(ls) - 1)), ls[Len(ls)])

BaseSize == 300

\* the closure captured by processFiles: what its callbacks read later
ImportClosure(s, files, dropPosition) ==
  [layers |-> s.layers, history |-> s.history, historyIndex |-> s.historyIndex,
   pan |-> s.pan, zoom |-> s.zoom, isSidebarOpen |-> s.isSidebarOpen,
   files |-> SortByName(files), dropPosition |-> dropPosition]

\* img.onload of the k-th decoder to complete (k from 1), for file f
ImportedLayer(c, f, k, id) ==
  LET count == Len(c.layers) + (k - 1)
      aspectRatio == Rat(f.width, f.height)
      centerPosition == IF IsNull(c.dropPosition) THEN ViewportCenter(c.pan, c.zoom)
                        ELSE Val(c.dropPosition)
  IN  [id |-> id, name |-> f.name,
       x |-> RAdd(RSub(centerPosition.x, R(150)), R(count * 20)),
       y |-> RAdd(RSub(centerPosition.y, R(150)), R(count * 20)),
       width |-> R(BaseSize),
       height |-> RDiv(R(BaseSize), aspectRatio)]

RECURSIVE ISqrt(_, _)
\* Math.floor(Math.sqrt(n)): the largest k with k * k <= n, searched from k
ISqrt(n, k) == IF (k + 1) * (k + 1) > n THEN k ELSE ISqrt(n, k + 1)

\* the rows/cols finishImport derives from the number of layers (App.tsx 275-293)
AutoGrid(totalImages) ==
  LET cols == ISqrt(totalImages, 0)
      rows == CeilDiv(totalImages, cols)
  IN  IF cols * rows >= totalImages /\ rows <= cols
      THEN [rows |-> cols, cols |-> rows]
      ELSE [rows |-> rows, cols |-> cols]

\* the layer list finishImport builds; order: the order in which the decoders
\* of c.files completed (a permutation of 1..Len(c.files))
ImportUpdatedLayers(c, order, firstId) ==
  LET newLayers == [k \in 1..Len(order) |->
                      ImportedLayer(c, c.files[order[k]], k, firstId + k - 1)]
      sortedNewLayers == SortByName(newLayers)
      updated == c.layers \o sortedNewLayers
  IN  IF Len(c.layers) = 0 THEN SortByName(updated) ELSE updated

\* finishImport without its view fitting
finishImport(s, c, order) ==
  LET updatedLayers == ImportUpdatedLayers(c, order, s.nextId)
      h == pushHistory(c.history, c.historyIndex, updatedLayers)
      g == AutoGrid(Len(updatedLayers))
  IN  [s EXCEPT !.layers = updatedLayers,
                !.history = h.history, !.historyIndex = h.historyIndex,
                !.nextId = @ + Len(order),
                !.settings = [@ EXCEPT !.gridRows = Some(g.rows), !.gridCols = Some(g.cols)],
                !.isSidebarOpen = IF c.isSidebarOpen THEN FALSE ELSE @]

(***************************************************************************)
(* The state machine.  The first group of variables is the state of the    *)
(* App component; imports and fitTimers are the callbacks in flight (the   *)
(* closures of unfinished imports, the layer lists of pending setTimeout   *)
(* fits); versions is the saved-version list (localStorage); mouseDown and *)
(* fingers are the pointers the user holds down.  lastOp (the last handler *)
(* run and what it returned), g0 (the state at the start of the current    *)
(* gesture), nGestures (the number of pointer-downs so far) and nCommits    *)
(* (the number of pushes onto the history) are history variables: no       *)
(* handler reads them.  lastOp.arg is the handler's input, lastOp.index    *)
(* and lastOp.len the history index and length it found.                   *)
(***************************************************************************)
VARIABLES layers, selectedIds, settings, zoom, pan, isBatchSelectMode,
          isSidebarOpen, selectionBox, snapGuides, dragState, history,
          historyIndex, nextId, imports, fitTimers, versions, mouseDown,
          fingers, lastOp, g0, nGestures, nCommits

appVars == <<layers, selectedIds, settings, zoom, pan, isBatchSelectMode,
             isSidebarOpen, selectionBox, snapGuides, dragState, history,
             historyIndex, nextId>>
vars == <<appVars, imports, fitTimers, versions, mouseDown, fingers, lastOp,
          g0, nGestures, nCommits>>

St ==
  [layers |-> layers, selectedIds |-> selectedIds, settings |-> settings,
   zoom |-> zoom, pan |-> pan, isBatchSelectMode |-> isBatchSelectMode,
   isSidebarOpen |-> isSidebarOpen, selectionBox |-> selectionBox,
   snapGuides |-> snapGuides, dragState |-> dragState, history |-> history,
   historyIndex |-> historyIndex, nextId |-> nextId]

\* a state in which the current history entry is the very array of the live
\* layers, so that what is written to the one shows in the other
ApplySharingSnapshot(s) ==
  /\ layers' = s.layers /\ selectedIds' = s.selectedIds /\ settings' = s.settings
  /\ zoom' = s.zoom /\ pan' = s.pan /\ isBatchSelectMode' = s.isBatchSelectMode
  /\ isSidebarOpen' = s.isSidebarOpen /\ selectionBox' = s.selectionBox
  /\ snapGuides' = s.snapGuides /\ dragState' = s.dragState
  /\ history' = [s.history EXCEPT ![s.historyIndex + 1] = s.layers]
  /\ historyIndex' = s.historyIndex /\ nextId' = s.nextId

Apply(s) ==
  /\ layers' = s.layers /\ selectedIds' = s.selectedIds /\ settings' = s.settings
  /\ zoom' = s.zoom /\ pan' = s.pan /\ isBatchSelectMode' = s.isBatchSelectMode
  /\ isSidebarOpen' = s.isSidebarOpen /\ selectionBox' = s.selectionBox
  /\ snapGuides' = s.snapGuides /\ dragState' = s.dragState
  /\ history' = s.history /\ historyIndex' = s.historyIndex /\ nextId' = s.nextId

NoGesture == [kind |-> "none"]

GestureActive(ds) ==
  ds.isDragging \/ ds.isResizing \/ ds.isPanning \/ ds.isSelecting \/ ds.isPinching

\* the handlers that push onto the history do so in every run that gets
\* past their early returns; undo and redo only move the index
Pushed(name, s) ==
  /\ name \notin {"undo", "redo"}
  /\ s.history # history \/ s.historyIndex # historyIndex

\* a handler or callback has run to completion and left the state s
Handled(name, arg, s, ret) ==
  /\ Apply(s)
  /\ lastOp' = [op |-> name, arg |-> arg, ret |-> ret, index |-> historyIndex,
                len |-> Len(history)]
  /\ nCommits' = IF Pushed(name, s) THEN nCommits + 1 ELSE nCommits

\* the same, outside of a pointer gesture
Ran(name, arg, s, ret) ==
  /\ Handled(name, arg, s, ret)
  /\ g0' = NoGesture

\* a discrete operation of the user
Op(name, arg, s, ret) ==
  /\ Ran(name, arg, s, ret)
  /\ UNCHANGED <<imports, fitTimers, versions, mouseDown, fingers, nGestures>>

InitWith(s, vs) ==
  /\ layers = s.layers /\ selectedIds = s.selectedIds /\ settings = s.settings
  /\ zoom = s.zoom /\ pan = s.pan /\ isBatchSelectMode = s.isBatchSelectMode
  /\ isSidebarOpen = s.isSidebarOpen /\ selectionBox = s.selectionBox
  /\ snapGuides = s.snapGuides /\ dragState = s.dragState
  /\ history = s.history /\ historyIndex = s.historyIndex /\ nextId = s.nextId
  /\ imports = <<>> /\ fitTimers = {} /\ versions = vs
  /\ mouseDown = FALSE /\ fingers = <<>>
  /\ lastOp = [op |-> "init", arg |-> Null, ret |-> Null, index |-> 0, len |-> 0]
  /\ g0 = NoGesture /\ nGestures = 0 /\ nCommits = Len(s.history) - 1

(***************************************************************************)
(* Actions: undo / redo and the loading of a saved version                 *)
(***************************************************************************)
MaxCommits == 3

Undo ==
  \E previous \in {undo(history, historyIndex).ret} :
    Op("undo", Null, handleUndo(St), previous)

Redo ==
  \E next \in {redo(history, historyIndex).ret} :
    Op("redo", Null, handleRedo(St), next)

LoadVersion == \E i \in 1..Len(versions) :
  /\ nCommits < MaxCommits
  /\ Op("loadVersion", Some(i), loadVersion(St, versions[i]), Null)

(***************************************************************************)
(* SpecHistory: the history manager driven by the App: a session that      *)
(* starts with three versions saved earlier, loads them (each load is a    *)
(* push of that layer list) and undoes / redoes.                           *)
(***************************************************************************)
Layer(id, base, x, y, w, h) ==
  [id |-> id, name |-> [base |-> base, nums |-> <<>>, copies |-> 0],
   x |-> R(x), y |-> R(y), width |-> R(w), height |-> R(h)]

SavedA == <<Layer(101, "a", 0, 0, 300, 300)>>
SavedB == <<Layer(101, "a", 0, 0, 300, 300), Layer(102, "b", 20, 20, 300, 150)>>
SavedC == <<Layer(101, "a", 0, 0, 300, 300), Layer(103, "c", 40, 40, 300, 200)>>

InitHistory == InitWith(AppInit, <<SavedA, SavedB, SavedC>>)

NextHistory == LoadVersion \/ Undo \/ Redo

SpecHistory == InitHistory /\ [][NextHistory]_vars

(***************************************************************************)
(* C2: a push (here the loading of a version s) discards every entry after *)
(* the current index, appends s and makes it the current entry, so that    *)
(* redo() then returns nothing; after push(A); push(B); undo(); push(C)    *)
(* the entries are [initial, A, C]: an entry cut off by a push is in the   *)
(* history afterwards only if it is the entry pushed.                      *)
(***************************************************************************)
C2_PushTruncates ==
  [][lastOp'.op = "loadVersion" =>
       /\ history' = Append(SubSeq(history, 1, historyIndex + 1), layers')
       /\ historyIndex' = Len(history') - 1
       /\ IsNull(redo(history', historyIndex').ret)
       /\ handleRedo(St)' = St']_vars

\* the push of C after push(A); push(B); undo()
C2_Witness ==
  /\ lastOp.op = "loadVersion"
  /\ lastOp.len > lastOp.index + 1
  /\ history = << <<>>, SavedA, SavedC >>
  /\ historyIndex = 2

(***************************************************************************)
(* C10: undo() at index 0 and redo() at the last index return nothing and  *)
(* leave the history entries, the index and the live layers as they were.  *)
(***************************************************************************)
C10_BoundaryUndoRedo ==
  [][(\/ lastOp'.op = "undo" /\ historyIndex = 0
      \/ lastOp'.op = "redo" /\ historyIndex = Len(history) - 1) =>
       /\ IsNull(lastOp'.ret)
       /\ UNCHANGED <<history, historyIndex, layers>>]_vars

\* an undo at index 0 of a history that has later entries has happened
C10_Witness ==
  /\ lastOp.op = "undo"
  /\ lastOp.index = 0
  /\ lastOp.len > 1
  /\ IsNull(lastOp.ret)

(***************************************************************************)
(* SpecAlign: handleAlign as a function of the document.  The document is  *)
(* one a session can have reached (layers of ids 1..AlignCount at the      *)
(* places of AlignShapes, any subset of them selected); the alignment      *)
(* buttons are then pressed.                                               *)
(***************************************************************************)
AlignCount == 3

AlignShapes ==
  { [x |-> 0,  y |-> 0,  w |-> 20, h |-> 20],
    [x |-> 30, y |-> 10, w |-> 60, h |-> 40],
    [x |-> 10, y |-> 50, w |-> 40, h |-> 30] }

DocOf(shapes) ==
  [i \in 1..Len(shapes) |->
     Layer(i, "a", shapes[i].x, shapes[i].y, shapes[i].w, shapes[i].h)]

\* the subsequences of 1..n: the selections, in the order of the ids
RECURSIVE SubSeqsOf(_)
SubSeqsOf(n) ==
  IF n = 0 THEN { <<>> }
  ELSE SubSeqsOf(n - 1) \cup { Append(q, n) : q \in SubSeqsOf(n - 1) }

\* the App with the document ls open and sel selected
Opened(ls, sel) ==
  [CommitLayers(AppInit, ls) EXCEPT !.selectedIds = sel, !.nextId = Len(ls) + 1]

InitAlign ==
  \E shapes \in [1..AlignCount -> AlignShapes], sel \in SubSeqsOf(AlignCount) :
    InitWith(Opened(DocOf(shapes), sel), <<>>)

Align == \E type \in AlignTypes :
  /\ nCommits < MaxCommits
  /\ Op("align", Some(type), handleAlign(St, type), Null)

NextAlign == Align

SpecAlign == InitAlign /\ [][NextAlign]_vars

\* the layers before the last committed operation
Before == history[historyIndex]

Selected(ls) == {i \in 1..Len(ls) : SelHas(selectedIds, ls[i].id)}

IsHorizontalAlign(type) == type \in {"left", "center-h", "right"}

(***************************************************************************)
(* C7 as stated: an alignment translates every selected layer by one       *)
(* common offset, so that x_i - x_j and y_i - y_j are the same before and  *)
(* after for every pair of selected layers.                                *)
(***************************************************************************)
C7_CommonOffset ==
  lastOp.op = "align" =>
    \A i, j \in Selected(layers) :
      /\ RSub(layers[i].x, layers[j].x) = RSub(Before[i].x, Before[j].x)
      /\ RSub(layers[i].y, layers[j].y) = RSub(Before[i].y, Before[j].y)

(***************************************************************************)
(* C7 amended: an alignment of two or more selected layers moves each of   *)
(* them by its own offset along the aligned axis only.  For every pair of  *)
(* selected layers the offset on the other axis is preserved, and on the   *)
(* aligned axis the two left (top) edges, centres or right (bottom) edges  *)
(* coincide afterwards, whatever their offset was before.                  *)
(***************************************************************************)
C7_PerLayerOffset ==
  lastOp.op = "align" /\ Cardinality(Selected(layers)) >= 2 =>
    \A i, j \in Selected(layers) :
      LET a == layers[i]
          b == layers[j]
          type == Val(lastOp.arg)
      IN  /\ IsHorizontalAlign(type) =>
               RSub(a.y, b.y) = RSub(Before[i].y, Before[j].y)
          /\ ~IsHorizontalAlign(type) =>
               RSub(a.x, b.x) = RSub(Before[i].x, Before[j].x)
          /\ type = "left" => a.x = b.x
          /\ type = "center-h" =>
               RAdd(a.x, RHalf(a.width)) = RAdd(b.x, RHalf(b.width))
          /\ type = "right" => RAdd(a.x, a.width) = RAdd(b.x, b.width)
          /\ type = "top" => a.y = b.y
          /\ type = "middle-v" =>
               RAdd(a.y, RHalf(a.height)) = RAdd(b.y, RHalf(b.height))
          /\ type = "bottom" => RAdd(a.y, a.height) = RAdd(b.y, b.height)

\* a right alignment of layers of different widths has changed an x offset
C7_Witness ==
  /\ lastOp.op = "align"
  /\ lastOp.arg = Some("right")
  /\ \E i, j \in Selected(layers) :
       /\ layers[i].width # layers[j].width
       /\ RSub(layers[i].x, layers[j].x) # RSub(Before[i].x, Before[j].x)

(***************************************************************************)
(* SpecGrid: handleGridLayout as a function of the document and of the     *)
(* grid settings.  The document has GridLayerCount layers at the places of *)
(* GridShapes, any subset selected; rows and columns are what the two text *)
(* inputs can hold (Null for the emptied input), the direction, the        *)
(* reverse switch and the scope what the panel's buttons set.              *)
(***************************************************************************)
GridLayerCount == 3

GridShapes ==
  { [x |-> 0,  y |-> 0,  w |-> 40, h |-> 20],
    [x |-> 30, y |-> 10, w |-> 60, h |-> 90] }

GridInputs == {Null, Some(1), Some(2)}

GridSettings ==
  { [INITIAL_SETTINGS EXCEPT !.gridRows = r, !.gridCols = c, !.gridDirection = d,
                             !.gridReverse = rev, !.stitchScope = scope] :
      r \in GridInputs, c \in GridInputs, d \in {"horizontal", "vertical"},
      rev \in BOOLEAN, scope \in {"all", "selected"} }

InitGrid ==
  \E shapes \in [1..GridLayerCount -> GridShapes],
     sel \in SubSeqsOf(GridLayerCount), st \in GridSettings :
    InitWith([Opened(DocOf(shapes), sel) EXCEPT !.settings = st], <<>>)

GridLayout ==
  /\ nCommits < MaxCommits
  /\ Op("gridLayout", Null, handleGridLayout(St), Null)

NextGrid == GridLayout

SpecGrid == InitGrid /\ [][NextGrid]_vars

\* the scoped layers of the last layout in traversal order, as they were
Traversal == GridTargets(Before, Range(selectedIds), settings)

Capacity == GridCount(settings.gridRows) * GridCount(settings.gridCols)

SameRect(a, b) ==
  a.x = b.x /\ a.y = b.y /\ a.width = b.width /\ a.height = b.height

\* every scoped layer was left of the place where the grid is laid out
AwayFromGrid == \A k \in 1..Len(Traversal) :
  RLt(RAdd(Traversal[k].x, Traversal[k].width), R(300))

(***************************************************************************)
(* C9: when the scope has more layers than rows * cols, a grid layout      *)
(* repositions exactly the first rows * cols layers of the traversal order *)
(* and returns all others (the rest of the scope and the layers outside    *)
(* it) with x, y, width and height unchanged.                              *)
(***************************************************************************)
C9_GridCapacity ==
  lastOp.op = "gridLayout" /\ lastOp.len < Len(history) =>
    /\ Ids(layers) = Ids(Before)
    /\ \A k \in 1..Len(Traversal) :
         LET was == Traversal[k]
             now == FindLayer(layers, was.id)
         IN  /\ k > Capacity => SameRect(now, was)
             /\ k <= Capacity /\ AwayFromGrid => now.x # was.x
    /\ \A i \in 1..Len(Before) :
         Before[i].id \notin Ids(Traversal) => layers[i] = Before[i]

\* a layout of three scoped layers into fewer cells that moved the first
\* of the traversal and left the last
C9_Witness ==
  /\ lastOp.op = "gridLayout" /\ lastOp.len < Len(history)
  /\ Len(Traversal) = 3 /\ Capacity = 2 /\ AwayFromGrid
  /\ FindLayer(layers, Traversal[1].id).x # Traversal[1].x
  /\ SameRect(FindLayer(layers, Traversal[3].id), Traversal[3])

(***************************************************************************)
(* Import.  ProcessFiles is the call of processFiles (file picker or       *)
(* drop): it captures the closure and starts the decoders.  FinishImport   *)
(* is the completion of the decoders, in any order, and the finishImport   *)
(* the last of them calls; FitTimer is the setTimeout callback that fits   *)
(* the view when the sidebar was open.                                     *)
(***************************************************************************)
MaxLayers == 4

File(base, w, h) ==
  [name |-> [base |-> base, nums |-> <<>>, copies |-> 0], width |-> w, height |-> h]

FileA == File("a", 400, 400)
FileB == File("b", 600, 300)
FileC == File("c", 300, 600)
FileD == File("d", 400, 300)
\* a panorama and a tall strip
FileE == File("e", 3000, 100)
FilePage == File("a", 600, 700)
FileStrip == File("c", 300, 7000)

Perms(n) == {f \in [1..n -> 1..n] : \A i, j \in 1..n : f[i] = f[j] => i = j}

ProcessFiles(files, dropPosition) ==
  /\ imports = <<>>
  /\ Len(layers) + Len(files) <= MaxLayers
  /\ imports' = Append(imports, ImportClosure(St, files, dropPosition))
  /\ lastOp' = [op |-> "processFiles", arg |-> Some(files), ret |-> Null,
                index |-> historyIndex, len |-> Len(history)]
  /\ g0' = NoGesture
  /\ UNCHANGED <<appVars, fitTimers, versions, mouseDown, fingers, nGestures,
                 nCommits>>

FinishImport ==
  /\ imports # <<>>
  /\ nCommits < MaxCommits
  /\ \E order \in Perms(Len(Head(imports).files)) :
       LET c == Head(imports)
           s == finishImport(St, c, order)
       IN  IF c.isSidebarOpen
           THEN /\ Ran("finishImport", Some(order), s, Null)
                /\ fitTimers' = fitTimers \cup {s.layers}
           ELSE /\ Ran("finishImport", Some(order), handleFitView(s, s.layers), Null)
                /\ fitTimers' = fitTimers
  /\ imports' = Tail(imports)
  /\ UNCHANGED <<versions, mouseDown, fingers, nGestures>>

FitTimer == \E ls \in fitTimers :
  /\ Ran("fitTimer", Null, handleFitView(St, ls), Null)
  /\ fitTimers' = fitTimers \ {ls}
  /\ UNCHANGED <<imports, versions, mouseDown, fingers, nGestures>>

ToggleSidebar ==
  /\ imports = <<>>
  /\ Op("toggleSidebar", Null, [St EXCEPT !.isSidebarOpen = ~@], Null)

ToggleGridReverse ==
  /\ layers # <<>>
  /\ Op("toggleGridReverse", Null,
        [St EXCEPT !.settings.gridReverse = ~@], Null)

(***************************************************************************)
(* SpecImport: a session that imports batches of files into the empty      *)
(* document and lays the layers out in the grid.                           *)
(***************************************************************************)
ImportBatches == { <<FileB, FileA, FileD, FileC>>, <<FileC, FileA>>, <<FileE>> }

InitImport == InitWith(AppInit, <<>>)

\* the file picker, used on the empty document
ImportFiles ==
  /\ layers = <<>>
  /\ \E files \in ImportBatches : ProcessFiles(files, Null)

NextImport ==
  \/ ImportFiles
  \/ FinishImport
  \/ FitTimer
  \/ ToggleSidebar
  \/ ToggleGridReverse
  \/ GridLayout

SpecImport == InitImport /\ [][NextImport]_vars

\* the row and the column of the grid a layer lies in: the layers of one
\* column share their centre x, those of one row their centre y
CentreX(l) == RAdd(l.x, RHalf(l.width))
CentreY(l) == RAdd(l.y, RHalf(l.height))
CellOf(ls, i) ==
  [row |-> Cardinality({CentreY(ls[j]) : j \in {k \in 1..Len(ls) :
                           RLt(CentreY(ls[k]), CentreY(ls[i]))}}),
   col |-> Cardinality({CentreX(ls[j]) : j \in {k \in 1..Len(ls) :
                           RLt(CentreX(ls[k]), CentreX(ls[i]))}})]

Names(ls) == [i \in 1..Len(ls) |-> ls[i].name.base]

\* the import of b, a, d, c into the empty document has just finished
ImportedBADC == lastOp.op = "finishImport" /\ Len(layers) = 4

\* the four layers have just been laid out in the 2 x 2 horizontal grid
LaidOut2x2(reverse) ==
  /\ lastOp.op = "gridLayout" /\ Len(layers) = 4
  /\ settings.gridRows = Some(2) /\ settings.gridCols = Some(2)
  /\ settings.gridDirection = "horizontal" /\ settings.stitchScope = "all"
  /\ settings.gridReverse = reverse

Cell(r, c) == [row |-> r, col |-> c]

(***************************************************************************)
(* C8 as stated: importing b.png, a.png, d.png, c.png into the empty       *)
(* document yields the layer sequence a, b, c, d, and a grid layout with   *)
(* rows = 2, cols = 2, horizontal, reverse off then places sequence index  *)
(* 0 in cell (0,0), 1 in (0,1), 2 in (1,0) and 3 in (1,1).                 *)
(***************************************************************************)
C8_SequenceOrderGrid ==
  /\ ImportedBADC => Names(layers) = <<"a", "b", "c", "d">>
  /\ LaidOut2x2(FALSE) =>
       /\ CellOf(layers, 1) = Cell(0, 0) /\ CellOf(layers, 2) = Cell(0, 1)
       /\ CellOf(layers, 3) = Cell(1, 0) /\ CellOf(layers, 4) = Cell(1, 1)

(***************************************************************************)
(* C8 amended: the import yields the sequence a, b, c, d; the grid layout  *)
(* traverses the layers from the last of the sequence to the first (the    *)
(* order of the layer panel), so with rows = 2, cols = 2, horizontal and   *)
(* reverse off it places sequence index 3 in cell (0,0), 2 in (0,1), 1 in  *)
(* (1,0) and 0 in (1,1); with reverse on, index 0 is in (0,0), 1 in (0,1), *)
(* 2 in (1,0) and 3 in (1,1).                                              *)
(***************************************************************************)
C8_PanelOrderGrid ==
  /\ ImportedBADC => Names(layers) = <<"a", "b", "c", "d">>
  /\ LaidOut2x2(FALSE) =>
       /\ CellOf(layers, 4) = Cell(0, 0) /\ CellOf(layers, 3) = Cell(0, 1)
       /\ CellOf(layers, 2) = Cell(1, 0) /\ CellOf(layers, 1) = Cell(1, 1)
  /\ LaidOut2x2(TRUE) =>
       /\ CellOf(layers, 1) = Cell(0, 0) /\ CellOf(layers, 2) = Cell(0, 1)
       /\ CellOf(layers, 3) = Cell(1, 0) /\ CellOf(layers, 4) = Cell(1, 1)

\* the imported a, b, c, d laid out with reverse off: d is in cell (0,0)
C8_Witness ==
  /\ LaidOut2x2(FALSE)
  /\ Names(layers) = <<"a", "b", "c", "d">>
  /\ CellOf(layers, 4) = Cell(0, 0)
  /\ lastOp.index = 1

(***************************************************************************)
(* C5: at all times every layer has width >= 20 and height >= 20 (after    *)
(* imports, resize gestures, grid layouts and auto-stitches).              *)
(***************************************************************************)
C5_MinSize ==
  \A i \in 1..Len(layers) :
    RLe(R(MinSize), layers[i].width) /\ RLe(R(MinSize), layers[i].height)

(***************************************************************************)
(* Pointer input.  A pointer-down goes to the element under the pointer:   *)
(* the top-most layer that contains the point (the layers are rendered in  *)
(* sequence order, later ones above), else the canvas.  The mouse sends    *)
(* one pointer-down per press; every finger is a pointer of its own, and   *)
(* its pointer events are followed by the touch events of the container.   *)
(***************************************************************************)
MaxGestures == 1

\* the client point at which a canvas point is shown
ToClient(p) ==
  Pt(RAdd(RAdd(RMul(p.x, zoom), pan.x), R(Container.left)),
     RAdd(RAdd(RMul(p.y, zoom), pan.y), R(Container.top)))

Contains(l, p) ==
  /\ RLe(l.x, p.x) /\ RLt(p.x, RAdd(l.x, l.width))
  /\ RLe(l.y, p.y) /\ RLt(p.y, RAdd(l.y, l.height))

\* the layer a pointer event at client point pt is dispatched to
HitTest(pt) ==
  LET p == getCanvasCoordinates(pt.x, pt.y, pan, zoom)
      hits == {i \in 1..Len(layers) : Contains(layers[i], p)}
  IN  IF hits = {} THEN Null
      ELSE Some(layers[CHOOSE i \in hits : \A j \in hits : j <= i].id)

DownEvent(pt, shift, alt) ==
  [button |-> 0, clientX |-> pt.x, clientY |-> pt.y, shiftKey |-> shift, altKey |-> alt]

\* what is remembered of the start of a gesture: the document, the history
\* and the selection the pointer-down found, the selection it left, the
\* element it hit and the pointer's first and latest position
GestureStart(e, target, handle, s) ==
  [kind |-> "gesture", layers |-> layers, history |-> history,
   historyIndex |-> historyIndex, selectedBefore |-> selectedIds,
   selected |-> s.selectedIds, target |-> target, handle |-> handle,
   altKey |-> e.altKey, down |-> Pt(e.clientX, e.clientY),
   last |-> Pt(e.clientX, e.clientY), strayed |-> FALSE]

\* the pointer at client point to is more than 3 / zoom canvas units away,
\* on one of the axes, from where it went down
Strays(from, to) ==
  \/ RLt(RDiv(R(3), zoom),
         RAbs(RSub(getCanvasCoordinates(to.x, to.y, pan, zoom).x,
                   getCanvasCoordinates(from.x, from.y, pan, zoom).x)))
  \/ RLt(RDiv(R(3), zoom),
         RAbs(RSub(getCanvasCoordinates(to.x, to.y, pan, zoom).y,
                   getCanvasCoordinates(from.x, from.y, pan, zoom).y)))

\* what is remembered of the gesture after a move of the pointer to pt
GestureMoved(pt) ==
  IF g0.kind = "none" THEN g0
  ELSE [g0 EXCEPT !.last = pt, !.strayed = @ \/ Strays(g0.down, pt)]

\* a pointer event handled: g is what is remembered of the gesture afterwards
Pointed(name, arg, s, g) ==
  /\ Handled(name, arg, s, Null)
  /\ g0' = g
  /\ UNCHANGED <<imports, fitTimers, versions>>

MouseDown(pt, shift, alt) ==
  /\ ~mouseDown /\ fingers = <<>>
  /\ nGestures < MaxGestures /\ nCommits < MaxCommits
  /\ LET e == DownEvent(pt, shift, alt)
         target == HitTest(pt)
         s == handlePointerDown(St, e, target, Null)
     IN  Pointed("pointerDown", Some(e), s, GestureStart(e, target, Null, s))
  /\ mouseDown' = TRUE /\ nGestures' = nGestures + 1
  /\ UNCHANGED fingers

\* the corners of a layer, where its resize handles are
Corners == {"nw", "ne", "sw", "se"}
CornerOf(l, handle) ==
  Pt(IF HandleHas(handle, "e") THEN RAdd(l.x, l.width) ELSE l.x,
     IF HandleHas(handle, "s") THEN RAdd(l.y, l.height) ELSE l.y)

\* a press on a resize handle of a selected layer
MouseDownHandle(i, handle) ==
  /\ ~mouseDown /\ fingers = <<>>
  /\ nGestures < MaxGestures /\ nCommits < MaxCommits
  /\ SelHas(selectedIds, layers[i].id)
  /\ LET pt == ToClient(CornerOf(layers[i], handle))
         e == DownEvent(pt, FALSE, FALSE)
         s == handlePointerDown(St, e, Some(layers[i].id), Some(handle))
     IN  Pointed("pointerDown", Some(e), s,
                 GestureStart(e, Some(layers[i].id), Some(handle), s))
  /\ mouseDown' = TRUE /\ nGestures' = nGestures + 1
  /\ UNCHANGED fingers

MouseMove(pt) ==
  /\ mouseDown
  /\ Pointed("pointerMove", Some(pt),
             handlePointerMove(St, [clientX |-> pt.x, clientY |-> pt.y]),
             GestureMoved(pt))
  /\ UNCHANGED <<mouseDown, fingers, nGestures>>

MouseUp(alt) ==
  /\ mouseDown
  /\ Pointed("pointerUp", Some(alt), handlePointerUp(St, [altKey |-> alt]), g0)
  /\ mouseDown' = FALSE
  /\ UNCHANGED <<fingers, nGestures>>

(***************************************************************************)
(* Actions: the discrete operations of toolbar, keyboard and layer panel   *)
(***************************************************************************)
SelectAll ==
  /\ layers # <<>>
  /\ Op("selectAll", Null, selectAllLayers(St), Null)

DeleteSelected ==
  /\ nCommits < MaxCommits
  /\ Op("deleteSelected", Null, deleteSelected(St), Null)

Duplicate == \E i \in 1..Len(layers) :
  /\ nCommits < MaxCommits /\ Len(layers) < MaxLayers
  /\ Op("duplicateLayer", Some(layers[i].id), duplicateLayer(St, layers[i].id), Null)

ClearCanvas ==
  /\ nCommits < MaxCommits
  /\ Op("clearCanvas", Null, clearCanvas(St), Null)

(***************************************************************************)
(* SpecDoc: a session of document operations: import, selection by click  *)
(* and select-all, delete, duplicate, clear, undo / redo and the loading   *)
(* of a version saved earlier.                                             *)
(***************************************************************************)
DocBatches == { <<FileB, FileA>> }

InitDoc == InitWith(AppInit, <<SavedB>>)

ImportDoc ==
  /\ layers = <<>>
  /\ \E files \in DocBatches : ProcessFiles(files, Null)

\* a click on a layer: the press at its centre, then the release
PressLayer == \E i \in 1..Len(layers) :
  MouseDown(ToClient(Pt(CentreX(layers[i]), CentreY(layers[i]))), FALSE, FALSE)

Release == MouseUp(FALSE)

\* no import is being decoded and no view fit is pending
Settled == imports = <<>> /\ fitTimers = {}

\* the user operates on the settled document
NextDoc ==
  \/ ImportDoc
  \/ FinishImport
  \/ FitTimer
  \/ Settled /\ PressLayer
  \/ Settled /\ Release
  \/ Settled /\ SelectAll
  \/ Settled /\ DeleteSelected
  \/ Settled /\ Duplicate
  \/ Settled /\ ClearCanvas
  \/ Settled /\ Undo
  \/ Settled /\ Redo
  \/ Settled /\ LoadVersion

SpecDoc == InitDoc /\ [][NextDoc]_vars

(***************************************************************************)
(* C4: every id in the selection is the id of a layer of the document, at  *)
(* all times (after import, gestures, delete, clear, duplicate, undo, redo *)
(* and version load).                                                      *)
(***************************************************************************)
C4_SelectionWithinLayers == Range(selectedIds) \subseteq Ids(layers)

(***************************************************************************)
(* Touch input: every finger that goes down, moves or lifts sends its      *)
(* pointer event and then the touch event with the fingers on the surface. *)
(* The model's fingers touch at points of one horizontal line.             *)
(***************************************************************************)
MaxFingers == 2
MaxTouches == 2

FingerDown(pt) ==
  /\ ~mouseDown /\ Len(fingers) < MaxFingers
  /\ \A k \in 1..Len(fingers) : fingers[k] # pt
  /\ nCommits < MaxCommits
  /\ LET e == DownEvent(pt, FALSE, FALSE)
         target == HitTest(pt)
         s1 == handlePointerDown(St, e, target, Null)
         s2 == handleTouchStart(s1, Append(fingers, pt))
     IN  Pointed("fingerDown", Some(e), s2,
                 IF fingers = <<>> THEN GestureStart(e, target, Null, s1)
                 ELSE NoGesture)
  /\ fingers' = Append(fingers, pt)
  /\ nGestures' = nGestures + 1
  /\ UNCHANGED mouseDown

FingerMove(k, pt) ==
  /\ k \in 1..Len(fingers)
  /\ \A j \in 1..Len(fingers) : fingers[j] # pt
  /\ LET touches == [fingers EXCEPT ![k] = pt]
         s1 == handlePointerMove(St, [clientX |-> pt.x, clientY |-> pt.y])
         s2 == handleTouchMove(s1, touches)
     IN  /\ Pointed("fingerMove", Some(pt), s2,
                    GestureMoved(pt))
         /\ fingers' = touches
  /\ UNCHANGED <<mouseDown, nGestures>>

FingerUp(k) ==
  /\ k \in 1..Len(fingers)
  /\ LET touches == SubSeq(fingers, 1, k - 1) \o SubSeq(fingers, k + 1, Len(fingers))
         s1 == handlePointerUp(St, [altKey |-> FALSE])
         s2 == handleTouchEnd(s1, Len(touches))
     IN  /\ Pointed("fingerUp", Some(k), s2, g0)
         /\ fingers' = touches
  /\ UNCHANGED <<mouseDown, nGestures>>

(***************************************************************************)
(* SpecGesture: mouse gestures on an open document of three layers, of     *)
(* which the first, the first two or none are selected, at zoom 1 or 2,    *)
(* in batch-select mode or not: presses on layers, on the canvas and on    *)
(* the corner handles, moves, releases, and the snapping switch.           *)
(***************************************************************************)
GestureDoc ==
  << Layer(1, "a", 0, 0, 100, 100), Layer(2, "b", 200, 0, 100, 60),
     Layer(3, "c", 0, 300, 80, 80) >>

\* client points: two on the first layer 2 pixels apart, one that is on the
\* second layer at zoom 1 and on the canvas at zoom 2
GesturePts == { Pt(R(10), R(10)), Pt(R(12), R(10)), Pt(R(220), R(20)) }

GestureCorners == {"nw", "se"}

InitGesture ==
  \E sel \in { <<>>, <<1>>, <<1, 2>> }, z \in {1, 2}, batch \in BOOLEAN :
    InitWith([Opened(GestureDoc, sel) EXCEPT !.zoom = R(z),
                                             !.isBatchSelectMode = batch], <<>>)

Press == \E pt \in GesturePts, alt \in BOOLEAN : MouseDown(pt, FALSE, alt)

PressHandle == \E i \in 1..Len(layers), handle \in GestureCorners :
  MouseDownHandle(i, handle)

Move == \E pt \in GesturePts : MouseMove(pt)

ReleaseAny ==
  \E alt \in (IF dragState.isSelecting THEN BOOLEAN ELSE {FALSE}) : MouseUp(alt)

\* the snapping switch of the sidebar, out of reach while the button is held
ToggleSnap ==
  /\ ~mouseDown
  /\ Op("toggleSnap", Null, [St EXCEPT !.settings.snapToGrid = ~@], Null)

NextGesture ==
  \/ Press
  \/ PressHandle
  \/ Move
  \/ ReleaseAny
  \/ ToggleSnap

SpecGesture == InitGesture /\ [][NextGesture]_vars

\* the canvas-space displacement of the pointer over the gesture
Displacement ==
  LET from == getCanvasCoordinates(g0.down.x, g0.down.y, pan, zoom)
      to == getCanvasCoordinates(g0.last.x, g0.last.y, pan, zoom)
  IN  Pt(RSub(to.x, from.x), RSub(to.y, from.y))

\* a gesture of pointer-down on a selected layer, pointer-moves only and
\* pointer-up has just ended, with snapping off
PlainDragEnded ==
  /\ lastOp.op = "pointerUp"
  /\ g0.kind = "gesture"
  /\ IsNull(g0.handle) /\ ~g0.altKey
  /\ ~IsNull(g0.target) /\ SelHas(g0.selectedBefore, Val(g0.target))
  /\ ~settings.snapToGrid

(***************************************************************************)
(* C3: with snapping off, for any non-empty selection and any sequence of  *)
(* pointer-moves between the pointer-down on a selected layer and the      *)
(* pointer-up, every selected layer ends at its position before the        *)
(* gesture plus the total canvas-space displacement of the pointer, with   *)
(* its width and height unchanged, the unselected layers are unchanged,    *)
(* and exactly one history entry has been pushed for the whole gesture.    *)
(***************************************************************************)
C3_DragTranslates ==
  PlainDragEnded =>
    /\ Len(layers) = Len(g0.layers)
    /\ \A i \in 1..Len(layers) :
         layers[i] =
           IF SelHas(g0.selectedBefore, g0.layers[i].id)
           THEN [g0.layers[i] EXCEPT !.x = RAdd(@, Displacement.x),
                                     !.y = RAdd(@, Displacement.y)]
           ELSE g0.layers[i]
    /\ history = Append(SubSeq(g0.history, 1, g0.historyIndex + 1), layers)
    /\ historyIndex = Len(history) - 1

\* a drag of two selected layers, by several moves, at zoom 2 has ended
\* away from where it began
C3_Witness ==
  /\ PlainDragEnded
  /\ Len(g0.selectedBefore) = 2
  /\ zoom = R(2)
  /\ Displacement = Pt(R(105), R(5))
  /\ layers[1].x = R(105) /\ layers[3] = g0.layers[3]

TouchPts == { Pt(R(10), R(10)), Pt(R(210), R(10)), Pt(R(410), R(10)) }

(***************************************************************************)
(* SpecTouch: touch gestures of up to two fingers on the open document.    *)
(***************************************************************************)
InitTouch ==
  \E sel \in { <<>>, <<1>> }, batch \in BOOLEAN :
    InitWith([Opened(GestureDoc, sel) EXCEPT !.isBatchSelectMode = batch], <<>>)

Touch == nGestures < MaxTouches /\ \E pt \in TouchPts : FingerDown(pt)

Slide == \E k \in 1..MaxFingers, pt \in TouchPts : FingerMove(k, pt)

Lift == \E k \in 1..MaxFingers : FingerUp(k)

NextTouch == Touch \/ Slide \/ Lift

SpecTouch == InitTouch /\ [][NextTouch]_vars

GestureFlags == {"isDragging", "isResizing", "isPanning", "isSelecting", "isPinching"}

(***************************************************************************)
(* C1: at most one of dragging, resizing, panning, marquee-selecting and   *)
(* pinching is active at any time: a pointer-down or a two-finger          *)
(* touch-start during a gesture never makes a second flag true.            *)
(***************************************************************************)
C1_OneGestureAtATime ==
  Cardinality({f \in GestureFlags : dragState[f]}) <= 1

(***************************************************************************)
(* SpecView: the viewport.  A session imports one image into the empty     *)
(* document, and then zooms with the toolbar buttons, the wheel, two-      *)
(* finger pinches and the fit button.                                      *)
(***************************************************************************)
ViewBatches == { <<FilePage>>, <<FileStrip>> }

\* e.deltaY of the wheel events: one notch towards the user, a long scroll
\* away from them
WheelDeltas == { -100, 5000 }

InitView == InitWith(AppInit, <<>>)

ImportView ==
  /\ layers = <<>>
  /\ \E files \in ViewBatches : ProcessFiles(files, Null)

\* the inputs to the viewport a session makes
MaxViewOps == 3

\* the image is on the canvas and the session has inputs left
Viewing == Settled /\ layers # <<>> /\ nGestures < MaxViewOps

\* an input to the viewport
ViewOp(name, arg, s) ==
  /\ Viewing
  /\ Handled(name, arg, s, Null)
  /\ g0' = NoGesture
  /\ nGestures' = nGestures + 1
  /\ UNCHANGED <<imports, fitTimers, versions, mouseDown, fingers>>

\* the fit button of the toolbar (App.tsx 1635)
FitView == \E ls \in {layers} : ViewOp("fitView", Null, handleFitView(St, ls))

\* the zoom buttons of the toolbar (App.tsx 1628, 1632)
ZoomOut == \E newZoom \in {RSub(zoom, Rat(1, 10))} :
  ViewOp("zoomOut", Null, zoomAtPoint(St, newZoom, Null))

ZoomIn == \E newZoom \in {RAdd(zoom, Rat(1, 10))} :
  ViewOp("zoomIn", Null, zoomAtPoint(St, newZoom, Null))

\* the wheel listener of the container (App.tsx 1569-1591)
Wheel == \E pt \in TouchPts, deltaY \in WheelDeltas :
  ViewOp("wheel", Some([clientX |-> pt.x, clientY |-> pt.y, deltaY |-> R(deltaY)]),
         handleWheel(St, [clientX |-> pt.x, clientY |-> pt.y, deltaY |-> R(deltaY)]))

\* a finger set on the surface
ViewTouch == Viewing /\ \E pt \in TouchPts : FingerDown(pt)

NextView ==
  \/ ImportView
  \/ FinishImport
  \/ FitTimer
  \/ FitView
  \/ ZoomOut
  \/ ZoomIn
  \/ Wheel
  \/ ViewTouch
  \/ Slide
  \/ Lift

SpecView == InitView /\ [][NextView]_vars

(***************************************************************************)
(* C6: in every reachable state the zoom of the viewport lies in           *)
(* [0.2, 3.0]: no sequence of zoom-button, wheel, pinch and fit operations *)
(* sets it outside this range.                                             *)
(***************************************************************************)
C6_ZoomRange == RLe(ZoomMin, zoom) /\ RLe(zoom, ZoomMax)

(***************************************************************************)
(* SpecEdit: an editing session on the open document of three layers:      *)
(* drags and resizes with the mouse, alignment, grid layout, auto-stitch,  *)
(* delete, duplicate, z-order changes, undo and redo.                      *)
(***************************************************************************)
MaxEdits == 3

InitEdit == InitWith(Opened(GestureDoc, <<1, 2>>), <<>>)

\* the alignments and the client points the session uses
EditAligns == {"left", "bottom"}
EditPts == { Pt(R(10), R(10)), Pt(R(220), R(20)) }

EditPress == \E pt \in EditPts : MouseDown(pt, FALSE, FALSE)

EditPressHandle ==
  \E i \in {j \in 1..Len(layers) : layers[j].id = 1}, handle \in GestureCorners :
    MouseDownHandle(i, handle)

EditMove == \E pt \in EditPts : MouseMove(pt)

EditAlign == \E type \in EditAligns :
  /\ nCommits < MaxCommits
  /\ Op("align", Some(type), handleAlign(St, type), Null)

EditDuplicate == \E id \in {layers[i].id : i \in 1..Len(layers)} \cap {1} :
  /\ nCommits < MaxCommits /\ Len(layers) < MaxLayers
  /\ Op("duplicateLayer", Some(id), duplicateLayer(St, id), Null)

\* the button is up and the session has edits left
Editing == ~mouseDown /\ nCommits < MaxEdits

AutoStitch == \E direction \in StitchDirections :
  /\ nCommits < MaxCommits
  /\ Op("autoStitch", Some(direction), handleAutoStitch(St, direction), Null)

BringToFront == \E ids \in {selectedIds} :
  /\ nCommits < MaxCommits
  /\ Op("bringToFront", Some(ids), bringToFront(St), Null)

SendToBack == \E ids \in {selectedIds} :
  /\ nCommits < MaxCommits
  /\ Op("sendToBack", Some(ids), sendToBack(St), Null)

IdsInOrderOf(ls) == [i \in 1..Len(ls) |-> ls[i].id]

\* the last layer of the list is dropped in front of the first
Reorder == \E newLayers \in {<<layers[Len(layers)]>> \o SubSeq(layers, 1, Len(layers) - 1) :
                              n \in {Len(layers)} \ {0, 1}} :
  /\ nCommits < MaxCommits
  /\ Op("reorderLayers", Some(IdsInOrderOf(newLayers)), reorderLayers(St, newLayers), Null)

NextEdit ==
  \/ Editing /\ EditPress
  \/ Editing /\ EditPressHandle
  \/ EditMove
  \/ ReleaseAny
  \/ Editing /\ EditAlign
  \/ Editing /\ GridLayout
  \/ Editing /\ AutoStitch
  \/ Editing /\ DeleteSelected
  \/ Editing /\ EditDuplicate
  \/ Editing /\ BringToFront
  \/ Editing /\ SendToBack
  \/ Editing /\ Reorder
  \/ ~mouseDown /\ Undo
  \/ ~mouseDown /\ Redo

SpecEdit == InitEdit /\ [][NextEdit]_vars

C12_PushOnlyIfChanged ==
  ( /\ lastOp.op = "pointerUp"
    /\ g0.kind = "gesture" /\ ~IsNull(g0.target)
    /\ layers = g0.layers )
  => (history = g0.history /\ historyIndex = g0.historyIndex)

(***************************************************************************)
(* SpecPackage: a session that imports two images, saves versions, loads   *)
(* them, exports the package of a saved version and imports it, clones     *)
(* layers by duplicate and by Alt-drag, and undoes and redoes.             *)
(***************************************************************************)
MaxVersions == 1

InitPackage == InitWith(AppInit, <<>>)

\* App.tsx 1179-1215: Ctrl+S
SaveVersion ==
  /\ layers # <<>> /\ Len(versions) < MaxVersions
  /\ versions' = <<layers>> \o versions
  /\ lastOp' = [op |-> "saveVersion", arg |-> Null, ret |-> Null,
                index |-> historyIndex, len |-> Len(history)]
  /\ g0' = NoGesture
  /\ UNCHANGED <<appVars, imports, fitTimers, mouseDown, fingers, nGestures, nCommits>>

\* the package exported from a saved version is imported
ImportPackage == \E i \in 1..Len(versions) :
  /\ nCommits < MaxCommits
  /\ Len(layers) + Len(versions[i]) <= MaxLayers
  /\ Op("importVersionPackage", Some(i),
        importVersionPackage(St, exportVersionPackage(versions[i])), Null)

\* the press of an Alt-drag on a layer, at its centre
PressLayerAlt == \E i \in 1..Len(layers) :
  /\ Len(layers) + Len(selectedIds) < MaxLayers
  /\ MouseDown(ToClient(Pt(CentreX(layers[i]), CentreY(layers[i]))), FALSE, TRUE)

NextPackage ==
  \/ ImportDoc
  \/ FinishImport
  \/ FitTimer
  \/ Settled /\ SaveVersion
  \/ Settled /\ ImportPackage
  \/ Settled /\ LoadVersion
  \/ Settled /\ Duplicate
  \/ Settled /\ PressLayer
  \/ Settled /\ PressLayerAlt
  \/ Settled /\ Release
  \/ Settled /\ Undo
  \/ Settled /\ Redo

SpecPackage == InitPackage /\ [][NextPackage]_vars

(***************************************************************************)
(* C13: no two layers of the layer sequence have the same id, after any    *)
(* sequence of imports, duplications, Alt-drag clones, version-package     *)
(* imports, version loads, undo and redo (fresh ids being distinct).       *)
(***************************************************************************)
C13_UniqueIds ==
  \A i, j \in 1..Len(layers) : layers[i].id = layers[j].id => i = j

(***************************************************************************)
(* SpecMarquee: marquee gestures in batch-select mode on the open document *)
(* of three layers.  The pointer goes to points off the layers, inside the *)
(* first layer, on the corner of the first layer and on a horizontal line  *)
(* through the second.                                                     *)
(***************************************************************************)
MarqueePts ==
  { Pt(R(150), R(150)), Pt(R(100), R(100)), Pt(R(50), R(50)),
    Pt(R(150), R(30)), Pt(R(350), R(30)) }

InitMarquee ==
  \E sel \in { <<>>, <<1>>, <<2, 1>> } :
    InitWith([Opened(GestureDoc, sel) EXCEPT !.isBatchSelectMode = TRUE], <<>>)

MarqueePress == \E pt \in MarqueePts : MouseDown(pt, FALSE, FALSE)

MarqueeMove == \E pt \in MarqueePts : MouseMove(pt)

NextMarquee ==
  \/ MarqueePress
  \/ MarqueeMove
  \/ ReleaseAny

SpecMarquee == InitMarquee /\ [][NextMarquee]_vars

\* a marquee gesture (a press off the layers in batch-select mode, moves and
\* the release) has just ended
MarqueeEnded ==
  /\ lastOp.op = "pointerUp"
  /\ g0.kind = "gesture" /\ IsNull(g0.target) /\ IsNull(g0.handle)
  /\ isBatchSelectMode

\* the corners of the marquee in canvas space
MarqueeFrom == getCanvasCoordinates(g0.down.x, g0.down.y, pan, zoom)
MarqueeTo == getCanvasCoordinates(g0.last.x, g0.last.y, pan, zoom)

\* the interior of the layer's rectangle meets the marquee rectangle
Intersects(l) ==
  /\ RLt(l.x, RMax(MarqueeFrom.x, MarqueeTo.x))
  /\ RLt(RMin(MarqueeFrom.x, MarqueeTo.x), RAdd(l.x, l.width))
  /\ RLt(l.y, RMax(MarqueeFrom.y, MarqueeTo.y))
  /\ RLt(RMin(MarqueeFrom.y, MarqueeTo.y), RAdd(l.y, l.height))

HitSet == {layers[i].id : i \in {j \in 1..Len(layers) : Intersects(layers[j])}}

(***************************************************************************)
(* C14: at the pointer-up of a marquee gesture the layers hit are those    *)
(* whose rectangle intersects the marquee rectangle in canvas space (a     *)
(* partial overlap suffices); the new selection is the old one plus the    *)
(* hit set, or the old one minus the hit set when the deselect modifier is *)
(* held; the layer sequence is unchanged.                                  *)
(***************************************************************************)
C14_MarqueeSelects ==
  MarqueeEnded =>
    /\ Range(selectedIds) = IF lastOp.arg = Some(TRUE)
                            THEN Range(g0.selectedBefore) \ HitSet
                            ELSE Range(g0.selectedBefore) \cup HitSet
    /\ layers = g0.layers
    /\ history = g0.history /\ historyIndex = g0.historyIndex

\* a marquee from (150,150) to (50,50) has selected the first layer, which
\* it overlaps in part, and nothing else
C14_Witness ==
  /\ MarqueeEnded /\ lastOp.arg = Some(FALSE)
  /\ g0.down = Pt(R(150), R(150)) /\ g0.last = Pt(R(50), R(50))
  /\ HitSet = {1}
  /\ g0.selectedBefore = <<>> /\ selectedIds = <<1>>

(***************************************************************************)
(* SpecStitch: auto-stitch on documents of layers of three shapes, for     *)
(* every selection, both scopes, smart stitch on and off and two gaps.     *)
(***************************************************************************)
StitchCount == 3

StitchGaps == {0, 10}

StitchSettings ==
  { [INITIAL_SETTINGS EXCEPT !.stitchScope = scope, !.smartStitch = smart,
                             !.stitchGap = gap] :
      scope \in {"all", "selected"}, smart \in BOOLEAN, gap \in StitchGaps }

InitStitch ==
  \E shapes \in [1..StitchCount -> AlignShapes],
     sel \in SubSeqsOf(StitchCount), st \in StitchSettings :
    InitWith([Opened(DocOf(shapes), sel) EXCEPT !.settings = st], <<>>)

NextStitch == AutoStitch

SpecStitch == InitStitch /\ [][NextStitch]_vars

\* the rectangles of a layer list
Rects(ls) == [i \in 1..Len(ls) |-> RectOf(ls[i])]

(***************************************************************************)
(* C15: auto-stitch applied twice in a row with the same direction, scope  *)
(* and settings (gap, smart stitch on or off) leaves the layers at the     *)
(* positions and sizes the first application gave them.  Stated for the    *)
(* handler of the App and for handleAutoStitch of alignmentUtils, on the   *)
(* current document and on the document a stitch has just produced.        *)
(***************************************************************************)
C15_StitchIdempotent ==
  /\ \A d \in StitchDirections :
       /\ Rects(handleAutoStitch(handleAutoStitch(St, d), d).layers)
            = Rects(handleAutoStitch(St, d).layers)
       /\ Rects(handleAutoStitchUtil(
                  handleAutoStitchUtil(layers, Range(selectedIds), settings, d),
                  Range(selectedIds), settings, d))
            = Rects(handleAutoStitchUtil(layers, Range(selectedIds), settings, d))
  /\ lastOp.op = "autoStitch" =>
       Rects(handleAutoStitch(St, Val(lastOp.arg)).layers) = Rects(layers)

\* a smart stitch with a gap has resized and moved layers, and a second one
\* in the same direction has been applied to its result
C15_Witness ==
  /\ lastOp.op = "autoStitch" /\ Len(history) = 4 /\ historyIndex = 3
  /\ settings.smartStitch /\ settings.stitchGap = 10
  /\ history[4] = history[3]
  /\ \E i \in 1..Len(layers) :
       /\ history[3][i].width # history[2][i].width
       /\ history[3][i].y # history[2][i].y

(***************************************************************************)
(* SpecResize: resizeLayer as a function.  One layer of one of the shapes  *)
(* of ResizeShapes is resized by every corner handle with deltas from      *)
(* ResizeDeltas, with and without the ratio lock; the result is the input  *)
(* of the next call.                                                       *)
(***************************************************************************)
MaxResizes == 1

ResizeShapes ==
  { [x |-> 0, y |-> 0, w |-> 100, h |-> 50],
    [x |-> 40, y |-> 10, w |-> 60, h |-> 90],
    [x |-> 0, y |-> 0, w |-> 10, h |-> 15] }

ResizeDeltas == {-1000, -30, 0, 40, 1000}

InitResize ==
  \E shape \in ResizeShapes :
    InitWith(Opened(DocOf(<<shape>>), <<1>>), <<>>)

ResizeCall(layer, handle, dx, dy, keepRatio) ==
  [layer |-> layer, handle |-> handle, dx |-> dx, dy |-> dy, keepRatio |-> keepRatio]

ResizeRect ==
  \E handle \in Corners, dx \in ResizeDeltas, dy \in ResizeDeltas,
     keepRatio \in BOOLEAN :
    /\ nGestures < MaxResizes
    /\ layers' = <<WithRect(layers[1],
                     resizeLayer(RectOf(layers[1]), handle, R(dx), R(dy), keepRatio))>>
    /\ lastOp' = [op |-> "resizeLayer",
                  arg |-> Some(ResizeCall(RectOf(layers[1]), handle, R(dx), R(dy),
                                          keepRatio)),
                  ret |-> Some(RectOf(layers'[1])),
                  index |-> historyIndex, len |-> Len(history)]
    /\ nGestures' = nGestures + 1
    /\ UNCHANGED <<selectedIds, settings, zoom, pan, isBatchSelectMode,
                   isSidebarOpen, selectionBox, snapGuides, dragState, history,
                   historyIndex, nextId, imports, fitTimers, versions, mouseDown,
                   fingers, g0, nCommits>>

NextResize == ResizeRect

SpecResize == InitResize /\ [][NextResize]_vars

AtLeastMinSize(r) == RLe(R(MinSize), r.width) /\ RLe(R(MinSize), r.height)

(***************************************************************************)
(* C16: for every corner handle (nw, ne, sw, se), every dx and dy however  *)
(* large or negative, and either keepAspectRatio setting, resizeLayer      *)
(* returns a rectangle with width >= 20 and height >= 20.                  *)
(***************************************************************************)
C16_ResizeMinSize ==
  lastOp.op = "resizeLayer" => AtLeastMinSize(Val(lastOp.ret))

\* a resize with the ratio lock whose deltas took both sides below the floor
C16_Witness ==
  /\ lastOp.op = "resizeLayer"
  /\ Val(lastOp.arg).keepRatio /\ Val(lastOp.arg).handle = "nw"
  /\ Val(lastOp.arg).dx = R(1000) /\ Val(lastOp.arg).dy = R(-30)
  /\ RLt(R(MinSize), Val(lastOp.arg).layer.width)
  /\ Val(lastOp.ret).width = R(MinSize) /\ Val(lastOp.ret).height = R(MinSize)

\* the width and the height of a call before the minimum size constraint
ResizeRawWidth(c) ==
  IF HandleHas(c.handle, "e") THEN RAdd(c.layer.width, c.dx)
  ELSE RSub(c.layer.width, c.dx)
ResizeRawHeight(c) ==
  IF c.keepRatio
  THEN RDiv(ResizeRawWidth(c), RDiv(c.layer.width, c.layer.height))
  ELSE IF HandleHas(c.handle, "s") THEN RAdd(c.layer.height, c.dy)
  ELSE RSub(c.layer.height, c.dy)

FloorEngaged(c) ==
  RLt(ResizeRawWidth(c), R(MinSize)) \/ RLt(ResizeRawHeight(c), R(MinSize))

RatioKept(c, r) == RDiv(r.width, r.height) = RDiv(c.layer.width, c.layer.height)

(***************************************************************************)
(* C17: when keepAspectRatio is true and the minimum-size floor is not     *)
(* engaged, resizeLayer returns a rectangle whose width / height equals    *)
(* the width / height of the input rectangle, for every corner handle and  *)
(* every dx, dy.                                                           *)
(***************************************************************************)
C17_ResizeKeepsRatio ==
  lastOp.op = "resizeLayer" /\ Val(lastOp.arg).keepRatio
    /\ ~FloorEngaged(Val(lastOp.arg))
    => RatioKept(Val(lastOp.arg), Val(lastOp.ret))

\* a locked resize by the nw handle changed the size, with a dy that alone
\* would have given another ratio
C17_Witness ==
  /\ lastOp.op = "resizeLayer"
  /\ Val(lastOp.arg).keepRatio /\ Val(lastOp.arg).handle = "nw"
  /\ ~FloorEngaged(Val(lastOp.arg))
  /\ Val(lastOp.arg).dx = R(-30) /\ Val(lastOp.arg).dy = R(40)
  /\ Val(lastOp.ret).width # Val(lastOp.arg).layer.width
  /\ RatioKept(Val(lastOp.arg), Val(lastOp.ret))

(***************************************************************************)
(* SpecLock: resize gestures with lock aspect ratio on, snapping on or     *)
(* off, on a document of two layers: the first, 100 x 50, is selected and  *)
(* resized by one of its corner handles; the second lies to its right.     *)
(***************************************************************************)
LockDoc ==
  << Layer(1, "a", 0, 0, 100, 50), Layer(2, "b", 205, 0, 100, 100) >>

LockPts ==
  { Pt(R(200), R(40)), Pt(R(150), R(75)), Pt(R(300), R(150)), Pt(R(60), R(30)),
    Pt(R(50), R(50)), Pt(R(10), R(90)), Pt(R(-40), R(-20)), Pt(R(90), R(45)) }

InitLock ==
  \E snap \in BOOLEAN :
    InitWith([Opened(LockDoc, <<1>>) EXCEPT !.settings.snapToGrid = snap,
                                           !.settings.keepAspectRatio = TRUE], <<>>)

LockPressHandle == \E handle \in Corners : MouseDownHandle(1, handle)

LockMove == \E pt \in LockPts : MouseMove(pt)

NextLock ==
  \/ LockPressHandle
  \/ LockMove
  \/ ReleaseAny

SpecLock == InitLock /\ [][NextLock]_vars

\* the call of resizeLayer the last pointer-move of a resize gesture made
LockCall ==
  ResizeCall(RectOf(FindLayer(g0.layers, Val(g0.target))), Val(g0.handle),
             Displacement.x, Displacement.y, settings.keepAspectRatio)

(***************************************************************************)
(* C18: with lock aspect ratio enabled, after every pointer-move of a      *)
(* resize gesture, whether snapping is enabled or disabled, the resized    *)
(* layer's width / height ratio equals its ratio before the gesture as     *)
(* long as the minimum-size floor is not engaged.                          *)
(***************************************************************************)
C18_LockedRatio ==
  (/\ lastOp.op = "pointerMove" /\ g0.kind = "gesture" /\ ~IsNull(g0.handle)
   /\ settings.keepAspectRatio
   /\ ~FloorEngaged(LockCall))
    => RatioKept(LockCall, RectOf(FindLayer(layers, Val(g0.target))))

(***************************************************************************)
(* C19: for any 2 or more selected layers, aligning top, middle-v or       *)
(* bottom leaves every layer's x unchanged (so x_i - x_j is unchanged for  *)
(* every pair), aligning left, center-h or right leaves every layer's y    *)
(* unchanged, and no alignment changes any width or height.  Checked in    *)
(* SpecAlign, on the layers before and after the alignment.                *)
(***************************************************************************)
C19_AlignFrame ==
  lastOp.op = "align" /\ Cardinality(Selected(layers)) >= 2 =>
    /\ Len(layers) = Len(Before)
    /\ \A i \in 1..Len(layers) :
         /\ layers[i].id = Before[i].id
         /\ layers[i].width = Before[i].width
         /\ layers[i].height = Before[i].height
         /\ IsHorizontalAlign(Val(lastOp.arg)) => layers[i].y = Before[i].y
         /\ ~IsHorizontalAlign(Val(lastOp.arg)) => layers[i].x = Before[i].x
    /\ \A i, j \in 1..Len(layers) :
         ~IsHorizontalAlign(Val(lastOp.arg)) =>
           RSub(layers[i].x, layers[j].x) = RSub(Before[i].x, Before[j].x)

\* a top alignment of three selected layers at three different x has moved
\* one of them up
C19_Witness ==
  /\ lastOp.op = "align" /\ lastOp.arg = Some("top")
  /\ Cardinality(Selected(layers)) = 3
  /\ Cardinality({layers[i].x : i \in 1..Len(layers)}) = 3
  /\ \E i \in 1..Len(layers) : layers[i].y # Before[i].y

(***************************************************************************)
(* SpecSnap: getSnapLines as a function.  The active rectangle, the other  *)
(* rectangles (none, one or two, in either order) and the threshold are    *)
(* drawn from the sets below; the canvas is 300 x 200.                     *)
(***************************************************************************)
SnapActives ==
  { [x |-> R(x), y |-> R(y), width |-> R(w), height |-> R(40)] :
      x \in {0, 4, 10, 44, 100}, y \in {0, 7, 50}, w \in {10, 50} }

SnapOthers ==
  { [x |-> R(65), y |-> R(47), width |-> R(40), height |-> R(30)],
    [x |-> R(-20), y |-> R(0), width |-> R(25), height |-> R(47)],
    [x |-> R(5), y |-> R(90), width |-> R(10), height |-> R(10)] }

SnapOtherLists ==
  { <<>> } \cup { <<a>> : a \in SnapOthers }
           \cup { <<a, b>> : a \in SnapOthers, b \in SnapOthers }

SnapThresholds == {5, 10}

SnapCanvas == [width |-> R(300), height |-> R(200)]

SnapCall(activeRect, otherRects, threshold) ==
  [activeRect |-> activeRect, otherRects |-> otherRects, threshold |-> threshold]

InitSnap == InitWith(AppInit, <<>>)

SnapLines ==
  \E activeRect \in SnapActives, otherRects \in SnapOtherLists,
     threshold \in SnapThresholds :
    /\ lastOp.op = "init"
    /\ lastOp' = [op |-> "getSnapLines",
                  arg |-> Some(SnapCall(activeRect, otherRects, R(threshold))),
                  ret |-> Some(getSnapLines(activeRect, otherRects, SnapCanvas.width,
                                            SnapCanvas.height, R(threshold))),
                  index |-> historyIndex, len |-> Len(history)]
    /\ snapGuides' = Val(lastOp'.ret).guides
    /\ UNCHANGED <<layers, selectedIds, settings, zoom, pan, isBatchSelectMode,
                   isSidebarOpen, selectionBox, dragState, history, historyIndex,
                   nextId, imports, fitTimers, versions, mouseDown, fingers, g0,
                   nGestures, nCommits>>

NextSnap == SnapLines

SpecSnap == InitSnap /\ [][NextSnap]_vars

\* the candidates of an axis in the order they are tried: 0, the canvas
\* bound, then the near and the far edge of each other rectangle
SnapCandidate(c, axis, k) ==
  IF k = 1 THEN R(0)
  ELSE IF k = 2 THEN (IF axis = "x" THEN SnapCanvas.width ELSE SnapCanvas.height)
  ELSE IF k % 2 = 1
  THEN (IF axis = "x" THEN c.otherRects[(k - 1) \div 2].x
        ELSE c.otherRects[(k - 1) \div 2].y)
  ELSE (IF axis = "x"
        THEN RAdd(c.otherRects[(k - 1) \div 2].x, c.otherRects[(k - 1) \div 2].width)
        ELSE RAdd(c.otherRects[(k - 1) \div 2].y, c.otherRects[(k - 1) \div 2].height))

\* the near (far = FALSE) or far edge of the active rectangle
SnapEdge(c, axis, far) ==
  IF axis = "x"
  THEN (IF far THEN RAdd(c.activeRect.x, c.activeRect.width) ELSE c.activeRect.x)
  ELSE (IF far THEN RAdd(c.activeRect.y, c.activeRect.height) ELSE c.activeRect.y)

\* a pair p = <<k, far>> of a candidate and an edge: its distance, and its
\* place in the order of the comparisons
SnapDistance(c, axis, p) ==
  RAbs(RSub(SnapEdge(c, axis, p[2]), SnapCandidate(c, axis, p[1])))
SnapRank(p) == 2 * p[1] + (IF p[2] THEN 1 ELSE 0)

SnapWithin(c, axis) ==
  { p \in (1..(2 + 2 * Len(c.otherRects))) \X BOOLEAN :
      RLt(SnapDistance(c, axis, p), c.threshold) }

\* the pair of smallest distance, the first found among equals
SnapBest(c, axis) ==
  CHOOSE p \in SnapWithin(c, axis) : \A q \in SnapWithin(c, axis) :
    \/ RLt(SnapDistance(c, axis, p), SnapDistance(c, axis, q))
    \/ SnapDistance(c, axis, p) = SnapDistance(c, axis, q) /\ SnapRank(p) <= SnapRank(q)

GuidesOf(guides, type) == SelectSeq(guides, LAMBDA g : g.type = type)

SnapAxisContract(c, axis, delta, guides) ==
  IF SnapWithin(c, axis) = {}
  THEN IsNull(delta) /\ guides = <<>>
  ELSE /\ ~IsNull(delta)
       /\ RAdd(SnapEdge(c, axis, SnapBest(c, axis)[2]), Val(delta))
            = SnapCandidate(c, axis, SnapBest(c, axis)[1])
       /\ RLt(RAbs(Val(delta)), c.threshold)
       /\ Len(guides) = 1
       /\ guides[1].position = SnapCandidate(c, axis, SnapBest(c, axis)[1])

(***************************************************************************)
(* C20: getSnapLines works per axis over the candidates {0, canvas bound}  *)
(* plus the near and far edges of the other rectangles: if some edge of    *)
(* the active rectangle is within threshold of a candidate, the returned   *)
(* delta moves the edge with the smallest distance exactly onto its        *)
(* candidate (the first found wins on ties), its magnitude is below the    *)
(* threshold, and exactly one guide is emitted at that candidate's         *)
(* coordinate; otherwise the delta for that axis is absent and no guide is *)
(* emitted for it.                                                         *)
(***************************************************************************)
C20_SnapContract ==
  lastOp.op = "getSnapLines" =>
    /\ SnapAxisContract(Val(lastOp.arg), "x", Val(lastOp.ret).x,
                        GuidesOf(Val(lastOp.ret).guides, "vertical"))
    /\ SnapAxisContract(Val(lastOp.arg), "y", Val(lastOp.ret).y,
                        GuidesOf(Val(lastOp.ret).guides, "horizontal"))
    /\ Len(Val(lastOp.ret).guides)
         = Len(GuidesOf(Val(lastOp.ret).guides, "vertical"))
           + Len(GuidesOf(Val(lastOp.ret).guides, "horizontal"))

\* a tie on the x axis: the right edge is 5 from the first other rectangle
\* and the left edge 5 from the second; the first found has won
C20_Witness ==
  /\ lastOp.op = "getSnapLines"
  /\ Val(lastOp.arg).activeRect.x = R(10) /\ Val(lastOp.arg).activeRect.width = R(50)
  /\ Val(lastOp.arg).threshold = R(10)
  /\ Len(Val(lastOp.arg).otherRects) = 2
  /\ Val(lastOp.arg).otherRects[1].x = R(65)
  /\ Val(lastOp.arg).otherRects[2].x = R(-20)
  /\ Val(lastOp.ret).x = Some(R(5))
  /\ Val(lastOp.ret).guides[1] = [type |-> "vertical", position |-> R(65)]

(***************************************************************************)
(* SpecLayout: the layout operations of the toolbar (alignment, auto-      *)
(* stitch, grid layout) on a document of three layers, for every           *)
(* selection, both scopes, smart stitch on and off and grid inputs that    *)
(* are set or emptied.                                                     *)
(***************************************************************************)
LayoutDoc ==
  << Layer(1, "a", 0, 0, 40, 20), Layer(2, "b", 30, 10, 60, 90),
     Layer(3, "c", 10, 50, 40, 30) >>

LayoutSettings ==
  { [INITIAL_SETTINGS EXCEPT !.stitchScope = scope, !.smartStitch = smart,
                             !.gridRows = r, !.gridCols = c] :
      scope \in {"all", "selected"}, smart \in BOOLEAN,
      r \in {Null, Some(2)}, c \in {Null, Some(1)} }

InitLayout ==
  \E sel \in SubSeqsOf(Len(LayoutDoc)), st \in LayoutSettings :
    InitWith([Opened(LayoutDoc, sel) EXCEPT !.settings = st], <<>>)

NextLayout ==
  \/ Align
  \/ AutoStitch
  \/ GridLayout

SpecLayout == InitLayout /\ [][NextLayout]_vars

LayoutOps == {"align", "autoStitch", "gridLayout"}

\* the layers the operation op works on: the selection for an alignment,
\* the selection or all layers, by the scope setting, for the others
InScope(op, l) ==
  IF op = "align" \/ settings.stitchScope = "selected"
  THEN SelHas(selectedIds, l.id) ELSE TRUE

IdsInOrder(ls) == [i \in 1..Len(ls) |-> ls[i].id]

\* after has the ids of before in the same order, and the layers of before
\* outside the scope of op are in after as they were
FrameKept(op, before, after) ==
  /\ IdsInOrder(after) = IdsInOrder(before)
  /\ \A i \in 1..Len(before) : ~InScope(op, before[i]) => after[i] = before[i]

(***************************************************************************)
(* C21: auto-stitch, grid layout and alignment return a sequence with the  *)
(* same layer ids in the same order as the input sequence, and every layer *)
(* outside the operation's scope (not selected when the scope is the       *)
(* selection) has unchanged x, y, width and height.                        *)
(***************************************************************************)
C21_LayoutFrame ==
  [][lastOp'.op \in LayoutOps =>
       /\ FrameKept(lastOp'.op, layers, layers')
       /\ \A d \in StitchDirections :
            FrameKept("autoStitch", layers,
                      handleAutoStitchUtil(layers, Range(selectedIds), settings, d))]_vars

\* a stitch of the two selected layers of three has moved one of them
C21_Witness ==
  /\ lastOp.op = "autoStitch"
  /\ settings.stitchScope = "selected" /\ selectedIds = <<1, 3>>
  /\ lastOp.len < Len(history)
  /\ layers[2] = Before[2]
  /\ layers[1] # Before[1]

\* the number of layers the operation op applies to
Applicable(op) == Cardinality({i \in 1..Len(layers) : InScope(op, layers[i])})

(***************************************************************************)
(* C22: invoking alignment, auto-stitch or grid layout when 0 or 1 layers  *)
(* are applicable is a silent no-op: every layer's x, y, width and height  *)
(* is unchanged and no history entry is pushed (history entries and        *)
(* current index unchanged).                                               *)
(***************************************************************************)
C22_SilentNoOp ==
  [][lastOp'.op \in LayoutOps /\ Applicable(lastOp'.op) <= 1 =>
       /\ Rects(layers') = Rects(layers)
       /\ UNCHANGED <<history, historyIndex>>]_vars

\* the indices of the layers a stitch works on
Scoped == {i \in 1..Len(layers) : InScope("autoStitch", layers[i])}

(***************************************************************************)
(* C23: with smart stitch enabled, after a vertical stitch every scoped    *)
(* layer's width equals the maximum pre-stitch width among the scoped      *)
(* layers (after a horizontal stitch every height equals the maximum       *)
(* pre-stitch height), and each layer's width / height ratio is unchanged. *)
(***************************************************************************)
C23_SmartStitchMax ==
  lastOp.op = "autoStitch" /\ lastOp.len < Len(history) /\ settings.smartStitch =>
    \A i \in Scoped :
      /\ Val(lastOp.arg) = "vertical" =>
           layers[i].width = RMaxOf({Before[j].width : j \in Scoped})
      /\ Val(lastOp.arg) = "horizontal" =>
           layers[i].height = RMaxOf({Before[j].height : j \in Scoped})
      /\ RDiv(layers[i].width, layers[i].height)
           = RDiv(Before[i].width, Before[i].height)

\* the k-th smallest element of a set of indices
Kth(S, k) == CHOOSE i \in S : Cardinality({j \in S : j < i}) = k - 1

\* after consists of the layers of before at the indices of first, in their
\* order, followed by those at the indices of second, in their order
Partitioned(before, after, first, second) ==
  /\ Len(after) = Cardinality(first) + Cardinality(second)
  /\ \A k \in 1..Len(after) :
       after[k] = IF k <= Cardinality(first) THEN before[Kth(first, k)]
                  ELSE before[Kth(second, k - Cardinality(first))]

(***************************************************************************)
(* C24: delete, bringToFront and sendToBack only remove or reorder layers  *)
(* and preserve relative order: delete(ids) returns exactly the layers     *)
(* whose id is not in ids in their original relative order; bringToFront   *)
(* (sendToBack) returns a permutation of the input with all selected       *)
(* layers after (before) all unselected ones, each of the two groups in    *)
(* its original relative order; no layer's fields are changed.             *)
(***************************************************************************)
C24_RemoveOrReorder ==
  [][/\ lastOp'.op = "deleteSelected" =>
          Partitioned(layers, layers', {i \in 1..Len(layers) : i \notin Selected(layers)}, {})
     /\ lastOp'.op = "bringToFront" =>
          Partitioned(layers, layers', {i \in 1..Len(layers) : i \notin Selected(layers)},
                      Selected(layers))
     /\ lastOp'.op = "sendToBack" =>
          Partitioned(layers, layers', Selected(layers),
                      {i \in 1..Len(layers) : i \notin Selected(layers)})]_vars

\* the first two of three layers have been brought to the front
C24_Witness ==
  /\ lastOp.op = "bringToFront"
  /\ lastOp.arg = Some(<<1, 2>>)
  /\ Len(layers) = 3
  /\ IdsInOrder(layers) = <<3, 1, 2>>

(***************************************************************************)
(* C25: when gridRows or gridCols is in the empty / unset state, invoking  *)
(* grid layout does not fail and is treated as no layout yet: every        *)
(* layer's x, y, width and height is unchanged.                            *)
(***************************************************************************)
C25_UnsetGridNoLayout ==
  [][lastOp'.op = "gridLayout"
       /\ (IsNull(settings.gridRows) \/ IsNull(settings.gridCols))
       => Rects(layers') = Rects(layers)]_vars

\* the operations that reach the App from the keyboard or the toolbar
OutsideOps ==
  {"deleteSelected", "undo", "redo", "align", "autoStitch", "gridLayout"}

(***************************************************************************)
(* C26: while a drag or resize gesture is active (between its pointer-down *)
(* and its pointer-up) the layer sequence and the history are changed only *)
(* by that gesture: a keyboard delete, undo or redo, or a toolbar layout   *)
(* or alignment action arriving mid-gesture does not modify the layers,    *)
(* the history entries or the history index.                               *)
(***************************************************************************)
C26_GestureOwnsWindow ==
  [][(dragState.isDragging \/ dragState.isResizing) /\ lastOp'.op \in OutsideOps
       => UNCHANGED <<layers, history, historyIndex>>]_vars

(***************************************************************************)
(* C27: after a pointer-up, whatever gesture was active, the gesture       *)
(* session is idle (dragging, resizing, panning, selecting and pinching    *)
(* flags all false, moved flag false, initial-rect map empty, no layer     *)
(* pending a toggle), the snap guides are empty and the marquee rectangle  *)
(* is cleared.                                                             *)
(***************************************************************************)
C27_IdleAfterUp ==
  lastOp.op \in {"pointerUp", "fingerUp"} =>
    /\ \A f \in GestureFlags : ~dragState[f]
    /\ ~dragState.hasMoved
    /\ dragState.initialLayers = <<>>
    /\ IsNull(dragState.clickedLayerId)
    /\ snapGuides = <<>>
    /\ IsNull(selectionBox)

\* the pointer-up of a drag that had moved a layer
C27_Witness ==
  /\ lastOp.op = "pointerUp"
  /\ g0.kind = "gesture" /\ ~IsNull(g0.target) /\ IsNull(g0.handle)
  /\ g0.last # g0.down
  /\ layers # g0.layers
  /\ settings.snapToGrid
  /\ dragState = DragIdle

\* the layers a drag moves, and the rectangle of one of them before the
\* gesture (for a clone of an Alt-drag: the rectangle it was created with)
Dragged == DOMAIN dragState.initialLayers
PreGesture(id) ==
  IF g0.altKey THEN dragState.initialLayers[id] ELSE RectOf(FindLayer(g0.layers, id))

Shift(id) ==
  Pt(RSub(FindLayer(layers, id).x, PreGesture(id).x),
     RSub(FindLayer(layers, id).y, PreGesture(id).y))

GroupDragMoved ==
  /\ lastOp.op = "pointerMove" /\ g0.kind = "gesture"
  /\ dragState.isDragging /\ settings.snapToGrid
  /\ Cardinality(Dragged) >= 2

(***************************************************************************)
(* C28: during a drag of two or more layers with snapping enabled, after   *)
(* every pointer-move all dragged layers have the same displacement from   *)
(* their pre-gesture positions (the snap offset is computed once from the  *)
(* group's bounding box and applied to every member), so the pairwise      *)
(* offsets between dragged layers never change during the gesture.         *)
(***************************************************************************)
C28_RigidGroup ==
  GroupDragMoved =>
    \A a, b \in Dragged :
      /\ Shift(a) = Shift(b)
      /\ FindLayer(layers, a).width = PreGesture(a).width
      /\ FindLayer(layers, a).height = PreGesture(a).height

\* a move of two dragged layers that the snap has pulled away from the
\* pointer's displacement
C28_Witness ==
  /\ GroupDragMoved /\ ~g0.altKey
  /\ Dragged = {1, 2}
  /\ Displacement.x # R(0)
  /\ Shift(1).x # Displacement.x
  /\ Shift(2) = Shift(1)

\* an Alt-drag gesture is going on: its pointer-down on a layer body or
\* one of its pointer-moves was the last event
AltDragging ==
  /\ lastOp.op \in {"pointerDown", "pointerMove"}
  /\ g0.kind = "gesture" /\ g0.altKey
  /\ ~IsNull(g0.target) /\ IsNull(g0.handle)

\* the selection the pointer-down works with: the pressed layer is added in
\* batch-select mode, and replaces the selection when it was not part of it
AltSelection ==
  IF isBatchSelectMode THEN Range(g0.selectedBefore) \cup {Val(g0.target)}
  ELSE IF SelHas(g0.selectedBefore, Val(g0.target)) THEN Range(g0.selectedBefore)
  ELSE {Val(g0.target)}

\* the places of the clones in the layer sequence
AltClones == (Len(g0.layers) + 1)..Len(layers)

(***************************************************************************)
(* C29: a pointer-down on a layer body with the duplication modifier held  *)
(* creates exactly one clone per selected layer, each with an id not used  *)
(* by any existing layer, appended after all existing layers (top of the   *)
(* stack); the selection becomes exactly the set of clone ids, and during  *)
(* the following drag only the clones move while every original layer's    *)
(* rectangle stays unchanged.                                              *)
(***************************************************************************)
C29_AltClones ==
  AltDragging =>
    /\ Len(layers) = Len(g0.layers) + Cardinality(AltSelection)
    /\ SubSeq(layers, 1, Len(g0.layers)) = g0.layers
    /\ \A k \in AltClones :
         /\ layers[k].id \notin Ids(g0.layers)
         /\ \A j \in AltClones : layers[j].id = layers[k].id => j = k
    /\ Range(selectedIds) = {layers[k].id : k \in AltClones}
    /\ \A id \in AltSelection :
         Cardinality({k \in AltClones :
            RectOf(layers[k]) =
              [RectOf(FindLayer(g0.layers, id))
                 EXCEPT !.x = RAdd(@, RSub(layers[Len(layers)].x,
                                           dragState.initialLayers[layers[Len(layers)].id].x)),
                        !.y = RAdd(@, RSub(layers[Len(layers)].y,
                                           dragState.initialLayers[layers[Len(layers)].id].y))]})
           = 1

\* the two selected layers were cloned and the clones have been dragged away
C29_Witness ==
  /\ AltDragging /\ lastOp.op = "pointerMove"
  /\ AltSelection = {1, 2}
  /\ Len(layers) = 5
  /\ layers[4].x # g0.layers[1].x
  /\ layers[1] = g0.layers[1]

(***************************************************************************)
(* C30: after a left-button pointer-down on a resize handle of layer L, in *)
(* every selection mode (plain, shift held, batch-select mode) and for     *)
(* every prior selection, the selection is exactly {L} and the gesture's   *)
(* initial-rect snapshot contains only L.                                  *)
(***************************************************************************)
C30_HandleSelectsOne ==
  lastOp.op = "pointerDown" /\ g0.kind = "gesture" /\ ~IsNull(g0.handle) =>
    /\ Range(selectedIds) = {Val(g0.target)}
    /\ DOMAIN dragState.initialLayers = {Val(g0.target)}

\* in batch-select mode a gesture that began, without the duplication
\* modifier, on a layer that was selected has just ended
BatchClickEnded ==
  /\ lastOp.op = "pointerUp" /\ g0.kind = "gesture"
  /\ isBatchSelectMode /\ ~g0.altKey
  /\ ~IsNull(g0.target) /\ SelHas(g0.selectedBefore, Val(g0.target))

(***************************************************************************)
(* C31: in batch-select mode, a pointer-down on an already-selected layer  *)
(* followed by a pointer-up with no pointer movement beyond the threshold  *)
(* (3 / zoom canvas units on either axis) removes exactly that layer from  *)
(* the selection and no other; if the pointer moved beyond the threshold   *)
(* at any time during the gesture, the pointer-up leaves the selection     *)
(* unchanged.                                                              *)
(***************************************************************************)
C31_BatchToggle ==
  BatchClickEnded =>
    selectedIds = IF g0.strayed THEN g0.selectedBefore
                  ELSE SelDel(g0.selectedBefore, Val(g0.target))

\* a click with a move of 2 pixels has taken the first of two selected
\* layers out of the selection
C31_Witness ==
  /\ BatchClickEnded /\ ~g0.strayed
  /\ g0.last # g0.down
  /\ g0.selectedBefore = <<1, 2>> /\ selectedIds = <<2>>

\* a drag that went far and came back has left the selection as it was
C31_WitnessDrag ==
  /\ BatchClickEnded /\ g0.strayed
  /\ g0.last = g0.down
  /\ g0.selectedBefore = <<1, 2>> /\ selectedIds = <<1, 2>>

\* the edge of rectangle r that lies opposite the side c of a handle
OppositeEdge(r, c) ==
  CASE c = "w" -> RAdd(r.x, r.width)
    [] c = "n" -> RAdd(r.y, r.height)
    [] c = "e" -> r.x
    [] c = "s" -> r.y

(***************************************************************************)
(* C32: for every dx, dy and keepAspectRatio setting, resizeLayer keeps    *)
(* the edge opposite the handle fixed: for handles containing w the right  *)
(* edge x + width equals the initial right edge, for handles containing n  *)
(* the bottom edge y + height equals the initial bottom edge, for handles  *)
(* containing e the x is unchanged and for handles containing s the y is   *)
(* unchanged.                                                              *)
(***************************************************************************)
C32_OppositeEdgeFixed ==
  lastOp.op = "resizeLayer" =>
    \A c \in {"n", "s", "e", "w"} :
      HandleHas(Val(lastOp.arg).handle, c) =>
        OppositeEdge(Val(lastOp.ret), c) = OppositeEdge(Val(lastOp.arg).layer, c)

\* the same, for the calls in which the minimum size constraint changes
\* neither side
C32_OppositeEdgeFixedAboveFloor ==
  lastOp.op = "resizeLayer" /\ ~FloorEngaged(Val(lastOp.arg)) =>
    \A c \in {"n", "s", "e", "w"} :
      HandleHas(Val(lastOp.arg).handle, c) =>
        OppositeEdge(Val(lastOp.ret), c) = OppositeEdge(Val(lastOp.arg).layer, c)

\* the coordinate and the extent of a layer along the stitch axis of
\* direction d, and its coordinate across it
StitchAlong(l, d) == IF d = "vertical" THEN l.y ELSE l.x
StitchExtent(l, d) == IF d = "vertical" THEN l.height ELSE l.width
StitchAcross(l, d) == IF d = "vertical" THEN l.x ELSE l.y

\* after is a chain in direction d of the layers of before at the indices
\* of S, taken in stitch order (from the last of the sequence to the first)
StitchedChain(before, after, S, d, gap) ==
  LET n == Cardinality(S)
      o(k) == Kth(S, n + 1 - k)
  IN  /\ StitchAlong(after[o(1)], d) = StitchAlong(before[o(1)], d)
      /\ StitchAcross(after[o(1)], d) = StitchAcross(before[o(1)], d)
      /\ \A k \in 2..n :
            /\ StitchAcross(after[o(k)], d) = StitchAcross(after[o(1)], d)
            /\ StitchAlong(after[o(k)], d)
                 = RAdd(RAdd(StitchAlong(after[o(k - 1)], d),
                             StitchExtent(after[o(k - 1)], d)), gap)
      /\ \A j, k \in 1..n :
            j < k => RLe(RAdd(StitchAlong(after[o(j)], d), StitchExtent(after[o(j)], d)),
                         StitchAlong(after[o(k)], d))

(***************************************************************************)
(* C33: after a vertical auto-stitch of 2 or more scoped layers with gap   *)
(* g >= 0, the first layer in stitch order keeps its position, every other *)
(* scoped layer has the first layer's x, and each layer's y equals the     *)
(* previous layer's y + height + g (symmetrically with x, width and a      *)
(* shared y for a horizontal stitch), so scoped layers never overlap along *)
(* the stitch axis.  Stated for the stitch the App has just done and for   *)
(* handleAutoStitch of alignmentUtils applied to the current document.     *)
(***************************************************************************)
C33_StitchChain ==
  Cardinality(Scoped) >= 2 =>
    /\ lastOp.op = "autoStitch" =>
         StitchedChain(Before, layers, Scoped, Val(lastOp.arg), R(settings.stitchGap))
    /\ \A d \in StitchDirections :
         StitchedChain(layers,
                       handleAutoStitchUtil(layers, Range(selectedIds), settings, d),
                       Scoped, d, R(settings.stitchGap))

\* a vertical stitch with gap 10 of three scoped layers, the second and the
\* third of which it has moved
C33_Witness ==
  /\ lastOp.op = "autoStitch" /\ Val(lastOp.arg) = "vertical"
  /\ Cardinality(Scoped) = 3 /\ settings.stitchGap = 10
  /\ layers[3] = Before[3]
  /\ layers[2].y # Before[2].y /\ layers[1].y # Before[1].y
  /\ layers[1].y = RAdd(RAdd(layers[2].y, layers[2].height), R(10))

\* the grid of the last layout: its column widths and row heights, its
\* total size, and its origin as the place of the layer in cell (0, 0),
\* the first of the traversal, less that layer's margins in its cell
GridColWidth(c) ==
  ColWidth(Traversal, GridCount(settings.gridRows), GridCount(settings.gridCols),
           settings.gridDirection, c)
GridRowHeight(r) ==
  RowHeight(Traversal, GridCount(settings.gridRows), GridCount(settings.gridCols),
            settings.gridDirection, r)
GridTotal ==
  [width  |-> RAdd(SumTo(GridColWidth, GridCount(settings.gridCols)),
                   R((GridCount(settings.gridCols) - 1) * settings.stitchGap)),
   height |-> RAdd(SumTo(GridRowHeight, GridCount(settings.gridRows)),
                   R((GridCount(settings.gridRows) - 1) * settings.stitchGap))]
GridOrigin ==
  LET now == FindLayer(layers, Traversal[1].id)
  IN  [x |-> RSub(now.x, RHalf(RSub(GridColWidth(0), now.width))),
       y |-> RSub(now.y, RHalf(RSub(GridRowHeight(0), now.height)))]
GridCenter ==
  [x |-> RAdd(GridOrigin.x, RHalf(GridTotal.width)),
   y |-> RAdd(GridOrigin.y, RHalf(GridTotal.height))]

\* screen = canvas * zoom + pan
ToScreen(p) == [x |-> RAdd(RMul(p.x, zoom), pan.x), y |-> RAdd(RMul(p.y, zoom), pan.y)]

WindowCenter ==
  [x |-> RHalf(R(Window.innerWidth)), y |-> RHalf(R(Window.innerHeight))]

GridLaidOut == lastOp.op = "gridLayout" /\ lastOp.len < Len(history)

(***************************************************************************)
(* C34: after grid layout the grid's bounding rectangle (total width by    *)
(* total height) is centered on the viewport center: under                 *)
(* screen = canvas * zoom + pan, the canvas-space center of the grid maps  *)
(* to the screen-space center of the window, for every pan and every zoom  *)
(* in [0.2, 3.0].                                                          *)
(***************************************************************************)
C34_GridCentered ==
  GridLaidOut => ToScreen(GridCenter) = WindowCenter

\* the same, for the layouts made at zoom 1 or with the pan at the origin
C34_GridCenteredUnzoomed ==
  GridLaidOut /\ (zoom = R(1) \/ pan = [x |-> R(0), y |-> R(0)]) =>
    ToScreen(GridCenter) = WindowCenter

\* the center of the grid is where the code's formula puts it
C34_GridAtCodeCenter ==
  GridLaidOut => GridCenter = ViewportCenter(pan, zoom)

(***************************************************************************)
(* SpecCells: grid layouts of the three layers of LayoutDoc, which have    *)
(* three different shapes, for every selection, every content of the rows  *)
(* and columns inputs, both directions and scopes, reverse on and off and  *)
(* two gaps.                                                               *)
(***************************************************************************)
CellSettings ==
  { [st EXCEPT !.stitchGap = gap] : st \in GridSettings, gap \in StitchGaps }

InitCells ==
  \E sel \in SubSeqsOf(Len(LayoutDoc)), st \in CellSettings :
    InitWith([Opened(LayoutDoc, sel) EXCEPT !.settings = st], <<>>)

NextCells == GridLayout

SpecCells == InitCells /\ [][NextCells]_vars

\* the traversal indices of the layers the last layout has placed
GridPlaced == {k \in 1..Len(Traversal) : k <= Capacity}

\* the layer of traversal index k after the layout, and its cell
GridNow(k) == FindLayer(layers, Traversal[k].id)
GridCellOf(k) ==
  GridCell(k - 1, GridCount(settings.gridRows), GridCount(settings.gridCols),
           settings.gridDirection)

\* the rectangle of a cell: the grid starts at the center the layout
\* computes less half its total size
GridCellRect(cell) ==
  [x |-> RAdd(RAdd(RSub(ViewportCenter(pan, zoom).x, RHalf(GridTotal.width)),
                   SumTo(GridColWidth, cell.col)),
              R(cell.col * settings.stitchGap)),
   y |-> RAdd(RAdd(RSub(ViewportCenter(pan, zoom).y, RHalf(GridTotal.height)),
                   SumTo(GridRowHeight, cell.row)),
              R(cell.row * settings.stitchGap)),
   width |-> GridColWidth(cell.col),
   height |-> GridRowHeight(cell.row)]

\* rectangle r lies in rectangle c with equal margins on opposite sides
CenteredInside(r, c) ==
  /\ RLe(c.x, r.x) /\ RLe(RAdd(r.x, r.width), RAdd(c.x, c.width))
  /\ RLe(c.y, r.y) /\ RLe(RAdd(r.y, r.height), RAdd(c.y, c.height))
  /\ RSub(r.x, c.x) = RSub(RAdd(c.x, c.width), RAdd(r.x, r.width))
  /\ RSub(r.y, c.y) = RSub(RAdd(c.y, c.height), RAdd(r.y, r.height))

\* the interiors of two rectangles do not meet
Disjoint(a, b) ==
  \/ RLe(RAdd(a.x, a.width), b.x) \/ RLe(RAdd(b.x, b.width), a.x)
  \/ RLe(RAdd(a.y, a.height), b.y) \/ RLe(RAdd(b.y, b.height), a.y)

(***************************************************************************)
(* C35: after grid layout each placed layer lies entirely inside its own   *)
(* cell (column width = maximum width and row height = maximum height of   *)
(* the layers assigned to that column or row), keeps its width / height    *)
(* ratio and has equal margins on opposite sides of the cell; distinct     *)
(* placed layers are assigned distinct cells with row < rows and           *)
(* col < cols, so for gap >= 0 no two placed layers overlap.               *)
(***************************************************************************)
C35_GridCells ==
  GridLaidOut =>
    /\ \A k \in GridPlaced :
         /\ GridCellOf(k).row \in 0..(GridCount(settings.gridRows) - 1)
         /\ GridCellOf(k).col \in 0..(GridCount(settings.gridCols) - 1)
         /\ GridColWidth(GridCellOf(k).col)
              = RMaxOf({Traversal[j].width :
                          j \in {i \in GridPlaced : GridCellOf(i).col = GridCellOf(k).col}})
         /\ GridRowHeight(GridCellOf(k).row)
              = RMaxOf({Traversal[j].height :
                          j \in {i \in GridPlaced : GridCellOf(i).row = GridCellOf(k).row}})
         /\ CenteredInside(RectOf(GridNow(k)), GridCellRect(GridCellOf(k)))
         /\ RDiv(GridNow(k).width, GridNow(k).height)
              = RDiv(Traversal[k].width, Traversal[k].height)
    /\ \A j, k \in GridPlaced :
         j # k => /\ GridCellOf(j) # GridCellOf(k)
                  /\ Disjoint(RectOf(GridNow(j)), RectOf(GridNow(k)))

\* three layers of two shapes in a 2 x 2 grid: the small one shares its
\* column with a large one and has margins left and right of it
C35_Witness ==
  /\ GridLaidOut /\ Cardinality(GridPlaced) = 3 /\ Capacity = 4
  /\ settings.stitchGap = 10
  /\ \E k \in GridPlaced :
       /\ RLt(GridCellRect(GridCellOf(k)).x, GridNow(k).x)
       /\ RLt(GridNow(k).width, GridColWidth(GridCellOf(k).col))

(***************************************************************************)
(* SpecSnapDrag: drags with snapping on, in a view panned to the far side  *)
(* of the canvas.  The first layer is pressed, alone or selected together  *)
(* with the third, with and without the duplication modifier, and moved to *)
(* the points of SnapDragPts: next to the press point, next to the edges   *)
(* of the second layer, next to coordinate 0 on the y axis and next to     *)
(* coordinate 5000 on the x axis.                                          *)
(***************************************************************************)
SnapDragDoc ==
  << Layer(1, "a", 4600, 100, 100, 100), Layer(2, "b", 4720, 300, 100, 60),
     Layer(3, "c", 4620, 400, 60, 80) >>

SnapDragPan == [x |-> R(-4500), y |-> R(0)]

SnapDragDown == Pt(R(150), R(150))

SnapDragPts ==
  { Pt(R(155), R(150)), Pt(R(446), R(150)), Pt(R(273), R(345)), Pt(R(150), R(53)),
    Pt(R(446), R(345)), Pt(R(273), R(150)) }

InitSnapDrag ==
  \E sel \in { <<1>>, <<1, 3>> } :
    InitWith([Opened(SnapDragDoc, sel) EXCEPT !.pan = SnapDragPan], <<>>)

SnapDragPress == \E alt \in BOOLEAN : MouseDown(SnapDragDown, FALSE, alt)

SnapDragMove == \E pt \in SnapDragPts : MouseMove(pt)

NextSnapDrag ==
  \/ SnapDragPress
  \/ SnapDragMove
  \/ ReleaseAny
  \/ ToggleSnap

SpecSnapDrag == InitSnapDrag /\ [][NextSnapDrag]_vars

\* a pointer-move of a drag with snapping on has just been handled
SnapDragMoved ==
  /\ lastOp.op = "pointerMove" /\ g0.kind = "gesture"
  /\ dragState.isDragging /\ settings.snapToGrid
  /\ Dragged # {}

\* what the move has added to the place of dragged layer id beyond the
\* pointer's displacement
SnapOffset(id) ==
  Pt(RSub(FindLayer(layers, id).x,
          RAdd(dragState.initialLayers[id].x, Displacement.x)),
     RSub(FindLayer(layers, id).y,
          RAdd(dragState.initialLayers[id].y, Displacement.y)))

\* the bounding box of the dragged layers, and the layers not dragged
DragBox == BoundsOf(SelectSeq(layers, LAMBDA l : l.id \in Dragged))
NotDragged == SelectSeq(layers, LAMBDA l : l.id \notin Dragged)

\* the coordinates of the edges of the layers not dragged
OtherEdgesX ==
  {NotDragged[i].x : i \in 1..Len(NotDragged)}
    \cup {RAdd(NotDragged[i].x, NotDragged[i].width) : i \in 1..Len(NotDragged)}
OtherEdgesY ==
  {NotDragged[i].y : i \in 1..Len(NotDragged)}
    \cup {RAdd(NotDragged[i].y, NotDragged[i].height) : i \in 1..Len(NotDragged)}

\* every offset the move has applied puts an edge of the box of the dragged
\* layers on a coordinate of bounds or on an edge of a layer not dragged
SnapsOnlyTo(bounds) ==
  \A id \in Dragged :
    /\ SnapOffset(id).x # R(0) =>
         {DragBox.minX, DragBox.maxX} \cap (bounds \cup OtherEdgesX) # {}
    /\ SnapOffset(id).y # R(0) =>
         {DragBox.minY, DragBox.maxY} \cap (bounds \cup OtherEdgesY) # {}

(***************************************************************************)
(* C36: during a drag with snapping enabled, every snap offset that is     *)
(* applied aligns an edge of the dragged layer (or of the dragged group's  *)
(* bounding box) with canvas coordinate 0 or with an edge of a layer that  *)
(* is not being dragged; no other coordinate is ever a snap target, and    *)
(* dragged layers never snap to one another.                               *)
(***************************************************************************)
C36_SnapTargets ==
  SnapDragMoved => SnapsOnlyTo({R(0)})

(***************************************************************************)
(* C36, with the bound handlePointerMove passes to getSnapLines: every     *)
(* snap offset applied during a drag aligns an edge of the dragged layer   *)
(* (or of the dragged group's bounding box) with canvas coordinate 0, with *)
(* canvas coordinate 5000 or with an edge of a layer that is not being     *)
(* dragged; dragged layers never snap to one another.                      *)
(***************************************************************************)
C36_SnapTargetsWithBound ==
  SnapDragMoved => SnapsOnlyTo({R(0), R(5000)})

\* a group of two dragged layers has been pulled onto the left and the top
\* edge of the layer that is not dragged
C36_Witness ==
  /\ SnapDragMoved /\ Dragged = {1, 3} /\ ~g0.altKey
  /\ \A id \in Dragged : SnapOffset(id) = Pt(R(-3), R(5))
  /\ DragBox.minX = layers[2].x /\ DragBox.minY = layers[2].y

\* the canvas point that the view of pan p and zoom z shows at the
\* container point a: (a - p) / z
CanvasUnder(a, p, z) == Pt(RDiv(RSub(a.x, p.x), z), RDiv(RSub(a.y, p.y), z))

ContainerCenter == Pt(RHalf(R(Container.width)), RHalf(R(Container.height)))

\* the step keeps the canvas point under container point a where it is,
\* and the pan with it when the zoom does not change
AnchorKept(a) ==
  /\ CanvasUnder(a, pan', zoom') = CanvasUnder(a, pan, zoom)
  /\ zoom' = zoom => pan' = pan

\* the steps of the zoom buttons and of the wheel keep their anchor
ZoomStepKeepsAnchor ==
  /\ lastOp'.op \in {"zoomIn", "zoomOut"} => AnchorKept(ContainerCenter)
  /\ lastOp'.op = "wheel" =>
       AnchorKept(Pt(RSub(Val(lastOp'.arg).clientX, R(Container.left)),
                     RSub(Val(lastOp'.arg).clientY, R(Container.top))))

\* two fingers are down and pinching; the canvas point that was under
\* their centroid when the pinch began is shown at that container point
Pinching == Len(fingers) = 2 /\ dragState.isPinching
PinchAnchorFixed ==
  ToScreen(CanvasUnder(dragState.pinchCenter, dragState.initialPan,
                       dragState.pinchStartZoom))
    = dragState.pinchCenter

\* the same point is shown at the centroid the fingers have now
PinchAnchorFollows ==
  ToScreen(CanvasUnder(dragState.pinchCenter, dragState.initialPan,
                       dragState.pinchStartZoom))
    = Pt(RHalf(RAdd(fingers[1].x, fingers[2].x)), RHalf(RAdd(fingers[1].y, fingers[2].y)))

(***************************************************************************)
(* C37: zoom changes are anchor-preserving: for zoomAtPoint and wheel zoom *)
(* the canvas point under the anchor (default: container center) before    *)
(* the change, (anchor - pan) / zoom, is under the same anchor afterwards,  *)
(* also when the requested zoom is clamped, and pan is unchanged when the   *)
(* clamped zoom equals the current zoom; for pinch zoom the canvas point    *)
(* under the original pinch centroid stays at that same screen position    *)
(* for every pointer-move of the pinch.                                    *)
(***************************************************************************)
C37_AnchorPreserved ==
  /\ [][ZoomStepKeepsAnchor]_vars
  /\ [](lastOp.op = "fingerMove" /\ Pinching => PinchAnchorFixed)

\* the part of C37 on the zoom buttons and the wheel
C37_ZoomAnchor == [][ZoomStepKeepsAnchor]_vars

\* after a move of a pinch the anchored point is under the fingers
C37_PinchFollows ==
  lastOp.op = "fingerMove" /\ Pinching => PinchAnchorFollows

\* the bounding box of the selected layers of the layer list ls
SelectionBox(ls) == BoundsOf(FilterIn(ls, Range(selectedIds)))

\* layer l is on the line that alignment type draws in bounding box b
AlignedTo(l, b, type) ==
  CASE type = "left"     -> l.x = b.minX
    [] type = "right"    -> RAdd(l.x, l.width) = b.maxX
    [] type = "center-h" -> RAdd(l.x, RHalf(l.width)) = RHalf(RAdd(b.minX, b.maxX))
    [] type = "top"      -> l.y = b.minY
    [] type = "bottom"   -> RAdd(l.y, l.height) = b.maxY
    [] type = "middle-v" -> RAdd(l.y, RHalf(l.height)) = RHalf(RAdd(b.minY, b.maxY))

\* some selected layer is narrower (lower) than bounding box b
NarrowerThan(b) ==
  \E i \in Selected(layers) : RLt(layers[i].width, RSub(b.maxX, b.minX))
LowerThan(b) ==
  \E i \in Selected(layers) : RLt(layers[i].height, RSub(b.maxY, b.minY))

\* on the current document, alignment types a and b give different results
AlignsApart(a, b) ==
  handleAlignUtil(layers, Range(selectedIds), a)
    # handleAlignUtil(layers, Range(selectedIds), b)

(***************************************************************************)
(* C38: the six alignment types are distinct edge/center alignments        *)
(* against the selection's pre-alignment bounding box: after left every    *)
(* selected layer's x equals the minimum x, after right every selected     *)
(* layer's right edge x + width equals the maximum right edge, after       *)
(* center-h every selected layer's horizontal center equals the bounding   *)
(* box's horizontal center (and likewise top, bottom, middle-v on the y    *)
(* axis); in particular right and bottom do not produce the same result as *)
(* left and top: on every document as opened they differ whenever a        *)
(* selected layer is narrower (lower) than the bounding box.               *)
(***************************************************************************)
C38_AlignTypes ==
  Cardinality(Selected(layers)) >= 2 =>
    /\ lastOp.op = "align" =>
         \A i \in Selected(layers) :
           AlignedTo(layers[i], SelectionBox(Before), Val(lastOp.arg))
    /\ lastOp.op = "init" /\ NarrowerThan(SelectionBox(layers)) =>
         AlignsApart("right", "left")
    /\ lastOp.op = "init" /\ LowerThan(SelectionBox(layers)) =>
         AlignsApart("bottom", "top")

\* a right alignment of three layers of three widths: the right edges are
\* on the right edge of the box the selection had, the left edges differ
C38_Witness ==
  /\ lastOp.op = "align" /\ lastOp.arg = Some("right")
  /\ Cardinality(Selected(layers)) = 3
  /\ Cardinality({layers[i].width : i \in 1..Len(layers)}) = 3
  /\ \E i \in 1..Len(layers) : layers[i].x # Before[i].x
  /\ \A i \in 1..Len(layers) :
       RAdd(layers[i].x, layers[i].width) = SelectionBox(Before).maxX
  /\ Cardinality({layers[i].x : i \in 1..Len(layers)}) = 3

\* no button is held, no finger is down and no gesture flag is set
NoGestureActive ==
  /\ ~mouseDown /\ fingers = <<>>
  /\ \A f \in GestureFlags : ~dragState[f]

(***************************************************************************)
(* C39: whenever no gesture is active, the live layer sequence equals the  *)
(* history entry at the current index, after any sequence of completed     *)
(* operations (import, drag, resize, alt-drag clone, stitch, grid layout,  *)
(* alignment, delete, duplicate, z-order change, reorder, clear, version   *)
(* load, undo, redo).                                                      *)
(***************************************************************************)
C39_LiveIsCurrentEntry ==
  NoGestureActive => layers = history[historyIndex + 1]

\* an undo has taken the canvas back from the last of two edits to the
\* one before it
C39_Witness ==
  /\ NoGestureActive /\ lastOp.op = "undo"
  /\ Len(history) = 4 /\ historyIndex = 2
  /\ layers = history[3] /\ layers # history[4] /\ layers # history[2]

(***************************************************************************)
(* SpecOverlap: imports into an open document of one layer, with other     *)
(* operations (duplicate, delete, a second import) between the call of     *)
(* processFiles and the completion of its decoders.                        *)
(***************************************************************************)
MaxImports == 2

OverlapDoc == << Layer(1, "a", 0, 0, 100, 100) >>

OverlapBatches == { <<FileB>>, <<FileC>> }

InitOverlap == InitWith(Opened(OverlapDoc, <<1>>), <<>>)

\* processFiles, also while the decoders of an earlier call are running
StartImport ==
  \E files \in OverlapBatches :
    /\ Len(imports) < MaxImports
    /\ Len(layers) + Len(files) <= MaxLayers
    /\ imports' = Append(imports, ImportClosure(St, files, Null))
    /\ lastOp' = [op |-> "processFiles", arg |-> Some(files), ret |-> Null,
                  index |-> historyIndex, len |-> Len(history)]
    /\ g0' = NoGesture
    /\ UNCHANGED <<appVars, fitTimers, versions, mouseDown, fingers, nGestures,
                   nCommits>>

NextOverlap ==
  \/ StartImport
  \/ FinishImport
  \/ FitTimer
  \/ Duplicate
  \/ DeleteSelected
  \/ SelectAll

SpecOverlap == InitOverlap /\ [][NextOverlap]_vars

\* the step keeps every layer of the list and every history entry up to
\* the current index
KeepsEffects ==
  /\ \A i \in 1..Len(layers) : \E j \in 1..Len(layers') : layers'[j] = layers[i]
  /\ Len(history') > historyIndex
  /\ SubSeq(history', 1, historyIndex + 1) = SubSeq(history, 1, historyIndex + 1)

\* nothing has changed the layers or the history since the import that
\* completes next was started
QuietImport ==
  /\ imports # <<>>
  /\ Head(imports).layers = layers
  /\ Head(imports).history = history
  /\ Head(imports).historyIndex = historyIndex

(***************************************************************************)
(* C40: an import whose image decoding completes after other operations    *)
(* have run does not lose their effects: layers added or changed between   *)
(* the start and the completion of the import (including the layers of     *)
(* another, overlapping import) are still present in the layer sequence    *)
(* afterwards, and history entries pushed in between are not discarded.    *)
(***************************************************************************)
C40_ImportKeepsEffects ==
  [][lastOp'.op = "finishImport" => KeepsEffects]_vars

\* the same for the imports during which nothing else has run
C40_QuietImportKeepsEffects ==
  [][lastOp'.op = "finishImport" /\ QuietImport => KeepsEffects]_vars

=============================================================================
